---- MODULE Spec2Model ----
(***************************************************************************)
(* Model of grugna/metadata-service:                                       *)
(*   src/src/mds/agg_mds/adapters.py  source adapters (fetch, normalize)   *)
(*   src/src/mds/query.py             filter grammar, visitor, compiler    *)
(*   src/src/mds/populate.py          population pipeline                  *)
(***************************************************************************)
EXTENDS Integers, Sequences, FiniteSets, TLC

(***************************************************************************)
(* Bounds of the model.                                                    *)
(***************************************************************************)
MaxIds == 3
MaxBatch == 3
MaxCap == 5
MaxTotal == 6

(***************************************************************************)
(* Shared helpers.                                                         *)
(***************************************************************************)
Min(a, b) == IF a < b THEN a ELSE b

\* the sequence a, a+1, ..., b (empty when b < a)
Range(a, b) == [i \in 1..(IF b >= a THEN b - a + 1 ELSE 0) |-> a + i - 1]

\* Python's None where an integer is expected
None == -1

(***************************************************************************)
(* Part 1: an adapter run started by adapters.get_metadata.                *)
(***************************************************************************)
VARIABLES
    adapter_name,   \* get_metadata's adapter_name
    filters,        \* get_metadata's filters
    NStudiesFound,  \* the total the ClinicalTrials server holds for the term
    phase,          \* Idle, Fetching, Done, FetchFailed, Normalizing, ...
    results,        \* getRemoteDataAsJson's results["results"]
    idx,            \* position of the for loop over study_ids / datasets
    offset,         \* ClinicalTrials locals
    remaining,
    limit,
    maxItems,
    requests,       \* the outbound requests issued so far, in order
    failedAt,       \* number of requests issued when the fetch failed, or None
    lastResponse,   \* status and body of the latest response received
    raised,         \* the exception that left get_metadata, or "none"
    batch,          \* what getRemoteDataAsJson returned: [returned, items]
    normEntered     \* normalizeToGen3MDSFields has been entered

runVars == <<adapter_name, filters, NStudiesFound, phase, results, idx, offset,
             remaining, limit, maxItems, requests, failedAt, lastResponse,
             raised, batch, normEntered>>

Adapters == {"icpsr", "clinicaltrials", "pdaps"}
\* adapter names a configuration may give: the three above and one more
AdapterNames == Adapters \cup {"gdc"}

NoBatch == [returned |-> FALSE, items |-> <<>>]
Batch(items) == [returned |-> TRUE, items |-> items]

\* filters as the configuration gives them: absent (None), present without
\* the adapter's selector, or present with it
FilterSet ==
    {[present |-> FALSE, selector |-> FALSE, ids |-> <<>>,
      batchSize |-> 1, maxItems |-> None]}
    \cup {[present |-> TRUE, selector |-> FALSE, ids |-> <<>>,
           batchSize |-> 1, maxItems |-> None]}
    \cup {[present |-> TRUE, selector |-> TRUE, ids |-> Range(1, n),
           batchSize |-> b, maxItems |-> m] :
            n \in 0..MaxIds, b \in 1..MaxBatch, m \in {None} \cup 1..MaxCap}

\* HTTP status codes the server may answer with
StatusCodes == {200, 204, 404, 500}
Is2xx(s) == s >= 200 /\ s <= 299

\* bodies of a 200 response
Bodies == {"ok", "nokey", "notjson"}

NoResponse == [status |-> 0, body |-> "none"]

RunInit ==
    /\ adapter_name \in AdapterNames
    /\ filters \in FilterSet
    /\ NStudiesFound \in 0..MaxTotal
    /\ phase = "Idle"
    /\ results = <<>>
    /\ idx = 1
    /\ offset = 1
    /\ remaining = 1
    /\ limit = 1
    /\ maxItems = None
    /\ requests = <<>>
    /\ failedAt = None
    /\ lastResponse = NoResponse
    /\ raised = "none"
    /\ batch = NoBatch
    /\ normEntered = FALSE

\* mutant: the failure is swallowed and what was accumulated is returned
FetchRaiseReturnsPartial(exc) ==
    /\ phase' = "Done"
    /\ raised' = raised
    /\ batch' = Batch(results')
    /\ failedAt' = failedAt

\* the fetch ends by raising: nothing is returned
FetchRaise(exc) ==
    /\ phase' = "FetchFailed"
    /\ raised' = exc
    /\ batch' = NoBatch
    /\ failedAt' = Len(requests')

\* the fetch ends by returning items
FetchReturn(items) ==
    /\ phase' = "Done"
    /\ batch' = Batch(items)
    /\ UNCHANGED <<raised, failedAt>>

FetchContinue ==
    /\ phase' = "Fetching"
    /\ UNCHANGED <<raised, batch, failedAt>>

\* get_metadata up to the first outbound request of getRemoteDataAsJson
GetMetadata ==
    /\ phase = "Idle"
    /\ requests' = requests
    /\ UNCHANGED <<adapter_name, filters, NStudiesFound, results, idx, offset,
                   remaining, lastResponse, normEntered>>
    /\ CASE adapter_name = "icpsr" ->
              /\ UNCHANGED <<limit, maxItems>>
              /\ IF ~filters.present \/ ~filters.selector \/ Len(filters.ids) = 0
                 THEN FetchReturn(<<>>)
                 ELSE FetchContinue
         [] adapter_name = "pdaps" ->
              /\ UNCHANGED <<limit, maxItems>>
              /\ IF ~filters.present \/ ~filters.selector \/ Len(filters.ids) = 0
                 THEN FetchReturn(<<>>)
                 ELSE FetchContinue
         [] adapter_name = "clinicaltrials" ->
              IF ~filters.present
              THEN FetchReturn(<<>>) /\ UNCHANGED <<limit, maxItems>>
              ELSE IF ~filters.selector
              \* term is None, "term" == None is False, term.replace raises
              THEN FetchRaise("AttributeError") /\ UNCHANGED <<limit, maxItems>>
              ELSE /\ maxItems' = filters.maxItems
                   /\ limit' = IF filters.maxItems # None
                               THEN Min(filters.maxItems, filters.batchSize)
                               ELSE filters.batchSize
                   /\ FetchContinue
         \* the else branch formats its message with the undefined name
         \* "name": the raise statement raises NameError instead
         [] OTHER ->
              /\ phase' = "DispatchFailed"
              /\ raised' = "NameError"
              /\ UNCHANGED <<limit, maxItems, batch, failedAt>>

\* one iteration of ISCPSRDublin.getRemoteDataAsJson's loop over study_ids
ICPSRRequest ==
    /\ phase = "Fetching"
    /\ adapter_name = "icpsr"
    /\ requests' = Append(requests, [id |-> filters.ids[idx]])
    /\ UNCHANGED <<adapter_name, filters, NStudiesFound, offset, remaining,
                   limit, maxItems, normEntered>>
    /\ \E status \in StatusCodes, body \in {"ok", "notxml"} :
         /\ lastResponse' = [status |-> status, body |-> body]
         /\ IF status = 200
            THEN IF body = "ok"
                 THEN /\ results' = Append(results, filters.ids[idx])
                      /\ idx' = idx + 1
                      /\ IF idx' > Len(filters.ids)
                         THEN FetchReturn(results')
                         ELSE FetchContinue
                 \* xmltodict.parse raises on a body that is not XML
                 ELSE /\ UNCHANGED <<results, idx>>
                      /\ FetchRaise("ExpatError")
            ELSE /\ UNCHANGED <<results, idx>>
                 /\ FetchRaise("ValueError")

\* one iteration of PDAPS.getRemoteDataAsJson's loop over datasets
PDAPSRequest ==
    /\ phase = "Fetching"
    /\ adapter_name = "pdaps"
    /\ requests' = Append(requests, [id |-> filters.ids[idx]])
    /\ UNCHANGED <<adapter_name, filters, NStudiesFound, offset, remaining,
                   limit, maxItems, normEntered>>
    /\ \E status \in StatusCodes, body \in {"ok", "notjson"} :
         /\ lastResponse' = [status |-> status, body |-> body]
         /\ IF status = 200 /\ body = "ok"
            THEN /\ results' = Append(results, filters.ids[idx])
                 /\ idx' = idx + 1
                 /\ IF idx' > Len(filters.ids)
                    THEN FetchReturn(results')
                    ELSE FetchContinue
            \* the bare except turns every exception into a ValueError
            ELSE /\ UNCHANGED <<results, idx>>
                 /\ FetchRaise("ValueError")

\* what the ClinicalTrials server answers to a request for ranks lo..hi
CTResponses(lo, hi) ==
    {[status |-> s, body |-> "ok", found |-> 0, returned |-> 0, studies |-> <<>>] :
        s \in StatusCodes \ {200}}
    \cup {[status |-> 200, body |-> b, found |-> 0, returned |-> 0, studies |-> <<>>] :
        b \in Bodies \ {"ok"}}
    \cup {[status |-> 200, body |-> "ok", found |-> NStudiesFound,
           returned |-> Len(Range(lo, Min(hi, NStudiesFound))),
           studies |-> Range(lo, Min(hi, NStudiesFound))]}

\* mutant: the cap test is strict
CapReachedStrict(cap, n) == cap # None /\ n > cap

\* the overall item cap has been reached
CapReached(cap, n) == cap # None /\ n >= cap

\* mutant: every request after the first asks for a whole batch
NextLimitWholeBatch(rem, batchSize) == batchSize

\* the batch-size limit of the next request
NextLimit(rem, batchSize) == Min(rem, batchSize)

\* one iteration of ClinicalTrials.getRemoteDataAsJson's while loop, for
\* the responses the server may give and the request log after the request
CTStep(responses, logged) ==
    /\ phase = "Fetching"
    /\ adapter_name = "clinicaltrials"
    /\ remaining > 0
    /\ requests' = logged
    /\ UNCHANGED <<adapter_name, filters, NStudiesFound, idx, normEntered>>
    /\ \E resp \in responses :
       /\ lastResponse' = [status |-> resp.status, body |-> resp.body]
       /\ IF resp.status # 200 \/ resp.body # "ok"
         \* non-200, a body that is not JSON, or no FullStudiesResponse key
         THEN /\ UNCHANGED <<results, offset, remaining, limit, maxItems>>
              /\ FetchRaise("ValueError")
         ELSE IF resp.found = 0
         THEN /\ UNCHANGED <<results, offset, remaining, limit, maxItems>>
              /\ FetchReturn(results)
         ELSE LET rem0 == IF offset = 1 THEN resp.found ELSE remaining
                  max0 == IF offset = 1 /\ maxItems # None
                          THEN (IF maxItems < rem0 THEN maxItems ELSE rem0)
                          ELSE maxItems
                  res0 == results \o resp.studies
              IN  /\ results' = res0
                  /\ maxItems' = max0
                  /\ IF CapReached(max0, Len(res0))
                     THEN /\ UNCHANGED <<offset, limit>>
                          /\ remaining' = rem0
                          /\ FetchReturn(res0)
                     ELSE /\ remaining' = rem0 - resp.returned
                          /\ offset' = offset + resp.returned
                          /\ limit' = NextLimit(remaining', filters.batchSize)
                          /\ IF remaining' > 0
                             THEN FetchContinue
                             ELSE FetchReturn(res0)

\* the request for the ranks offset .. offset + limit - 1
RankWindow == [min_rnk |-> offset, max_rnk |-> offset + limit - 1]

\* the iteration against a server that returns exactly the requested ranks
\* up to its total
CTRequest == CTStep(CTResponses(offset, offset + limit - 1), Append(requests, RankWindow))

\* what any server may answer: a failure, or a 200 that reports the total
\* NStudiesFound and returns any number of studies, none included
MaxReturned == 4
AnyCTResponses ==
    {[status |-> s, body |-> "ok", found |-> 0, returned |-> 0, studies |-> <<>>] :
        s \in StatusCodes \ {200}}
    \cup {[status |-> 200, body |-> b, found |-> 0, returned |-> 0, studies |-> <<>>] :
        b \in Bodies \ {"ok"}}
    \cup {[status |-> 200, body |-> "ok", found |-> NStudiesFound, returned |-> n,
           studies |-> Range(Len(results) + 1, Len(results) + n)] :
        n \in 0..MaxReturned}

\* the request log of a run that may go on for ever: started anew with the
\* latest request once it holds MaxLog requests
MaxLog == 3
LastRequests(log) == IF Len(log) > MaxLog THEN <<log[Len(log)]>> ELSE log

\* the iteration against any server
CTRequestAnyServer == CTStep(AnyCTResponses, LastRequests(Append(requests, RankWindow)))

\* a ClinicalTrials run
FetchInit == RunInit /\ adapter_name = "clinicaltrials"

\* mutant: get_metadata normalizes whatever the fetch left behind
StartNormalizeAfterFailure ==
    /\ phase \in {"Done", "FetchFailed"}
    /\ phase' = "Normalizing"
    /\ normEntered' = TRUE
    /\ UNCHANGED <<adapter_name, filters, NStudiesFound, results, idx, offset,
                   remaining, limit, maxItems, requests, failedAt, lastResponse,
                   raised, batch>>

\* get_metadata passes the batch to normalizeToGen3MDSFields
StartNormalize ==
    /\ phase = "Done"
    /\ phase' = "Normalizing"
    /\ normEntered' = TRUE
    /\ UNCHANGED <<adapter_name, filters, NStudiesFound, results, idx, offset,
                   remaining, limit, maxItems, requests, failedAt, lastResponse,
                   raised, batch>>

\* normalizeToGen3MDSFields returns the records, or raises on an item it
\* cannot handle
FinishNormalize ==
    /\ phase = "Normalizing"
    /\ \E ok \in BOOLEAN :
         IF ok \/ Len(batch.items) = 0
         THEN phase' = "Normalized" /\ raised' = raised
         ELSE phase' = "NormalizeFailed" /\ raised' = "KeyError"
    /\ UNCHANGED <<adapter_name, filters, NStudiesFound, results, idx, offset,
                   remaining, limit, maxItems, requests, failedAt, lastResponse,
                   batch, normEntered>>

RunNext ==
    \/ GetMetadata
    \/ ICPSRRequest
    \/ PDAPSRequest
    \/ CTRequest
    \/ StartNormalize
    \/ FinishNormalize

(***************************************************************************)
(* Claims about the adapter run.                                           *)
(***************************************************************************)

\* the latest response is one the claim C1 calls a failure
C1_FailureResponse ==
    /\ lastResponse # NoResponse
    /\ \/ ~Is2xx(lastResponse.status)
       \/ adapter_name = "clinicaltrials" /\ lastResponse.body = "nokey"

\* C1: in every adapter, a non-2xx response (for ClinicalTrials also a body
\* without FullStudiesResponse) makes getRemoteDataAsJson raise a ValueError
\* and return no batch, whatever earlier requests had accumulated.
C1_FailedFetchReturnsNoBatch ==
    C1_FailureResponse =>
        /\ phase = "FetchFailed"
        /\ raised = "ValueError"
        /\ batch = NoBatch

\* a fetch that failed after earlier requests had accumulated items
C1_Witness ==
    /\ C1_FailureResponse
    /\ adapter_name = "clinicaltrials"
    /\ Len(results) > 0
    /\ phase = "FetchFailed"

\* a ClinicalTrials fetch with maxItems given has returned a batch
C2_CappedFetchReturned ==
    /\ adapter_name = "clinicaltrials"
    /\ batch.returned
    /\ filters.present /\ filters.selector
    /\ filters.maxItems # None

\* C2 as claimed: a successful ClinicalTrials fetch with maxItems returns
\* exactly min(maxItems, NStudiesFound) items.
C2_ExactCap ==
    C2_CappedFetchReturned =>
        Len(batch.items) = Min(filters.maxItems, NStudiesFound)

\* smallest multiple of b that is >= m
RoundUp(m, b) == ((m + b - 1) \div b) * b

\* C2 amended: the fetch returns the ranks 1..n, where n is at least
\* min(maxItems, NStudiesFound) and at most NStudiesFound; the cap is tested
\* only after a whole batch was appended, so n is that minimum when
\* maxItems <= batchSize, and otherwise the minimum rounded up to the next
\* multiple of batchSize (bounded by NStudiesFound).
C2_CapRoundedToBatch ==
    C2_CappedFetchReturned =>
        LET m == Min(filters.maxItems, NStudiesFound)
            n == Len(batch.items)
        IN  /\ batch.items = Range(1, n)
            /\ n >= m
            /\ n <= NStudiesFound
            /\ n = IF filters.maxItems <= filters.batchSize
                   THEN m
                   ELSE Min(NStudiesFound, RoundUp(m, filters.batchSize))

\* a capped fetch that returned more than maxItems
C2_Witness ==
    /\ C2_CappedFetchReturned
    /\ Len(batch.items) > filters.maxItems

\* C3: FetchFailed is terminal (no request after the failure, the error
\* surfaces, normalizeToGen3MDSFields is never entered) and normalization is
\* entered only from a fetch that reached Done.
C3_FetchFailedTerminal ==
    /\ failedAt # None =>
          /\ phase = "FetchFailed"
          /\ Len(requests) = failedAt
          /\ raised # "none"
          /\ ~normEntered
    /\ phase = "FetchFailed" => failedAt # None
    /\ normEntered => batch.returned /\ failedAt = None
    /\ phase \in {"Normalizing", "Normalized", "NormalizeFailed"} => normEntered

\* a run whose second request failed
C3_Witness ==
    /\ phase = "FetchFailed"
    /\ Len(requests) = 2
    /\ failedAt = 2
    /\ Len(results) > 0

\* the adapter run at rest, for the specifications of the other parts
RunIdle ==
    /\ adapter_name = "icpsr"
    /\ filters = [present |-> FALSE, selector |-> FALSE, ids |-> <<>>,
                  batchSize |-> 1, maxItems |-> None]
    /\ NStudiesFound = 0
    /\ phase = "Idle"
    /\ results = <<>>
    /\ idx = 1
    /\ offset = 1
    /\ remaining = 1
    /\ limit = 1
    /\ maxItems = None
    /\ requests = <<>>
    /\ failedAt = None
    /\ lastResponse = NoResponse
    /\ raised = "none"
    /\ batch = NoBatch
    /\ normEntered = FALSE

\* C16 (as claimed): get_metadata called with an unknown adapter name fails
\* at dispatch time with the 'unknown adapter' error (an Exception with that
\* message), without creating an adapter, issuing a request or returning a
\* record.
C16_UnknownAdapterError ==
    (adapter_name \notin Adapters /\ phase # "Idle") =>
        /\ phase = "DispatchFailed"
        /\ raised = "Exception"
        /\ requests = <<>>
        /\ batch = NoBatch
        /\ ~normEntered

\* the unknown name does end the call at dispatch time, with no request and
\* no record, but by a NameError
C16_FailsAtDispatch ==
    (adapter_name \notin Adapters /\ phase # "Idle") =>
        /\ phase = "DispatchFailed"
        /\ raised = "NameError"
        /\ requests = <<>>
        /\ batch = NoBatch
        /\ ~normEntered

\* the run was given no filters, or filters without the adapter's selector
C23_NoSelector ==
    /\ adapter_name \in Adapters
    /\ phase # "Idle"
    /\ ~filters.present \/ ~filters.selector

\* C23 (as claimed): in every adapter, getRemoteDataAsJson called without
\* filters, or with filters that lack the adapter's selector, issues no
\* request and returns the empty batch without raising.
C23_NoSelectorEmptyBatch ==
    C23_NoSelector =>
        /\ requests = <<>>
        /\ raised = "none"
        /\ batch = Batch(<<>>)

\* ICPSR and PDAPS do so, and so does ClinicalTrials when filters is None
C23_EmptyBatchUnlessTermMissing ==
    (C23_NoSelector /\ ~(adapter_name = "clinicaltrials" /\ filters.present)) =>
        /\ requests = <<>>
        /\ raised = "none"
        /\ batch = Batch(<<>>)

\* ClinicalTrials with filters that have no term raises before any request
C23_MissingTermRaises ==
    /\ C23_NoSelector
    /\ adapter_name = "clinicaltrials"
    /\ filters.present
    /\ phase = "FetchFailed"
    /\ raised = "AttributeError"
    /\ requests = <<>>

(***************************************************************************)
(* Part 2: RemoteMetadataAdapter.setPerItemValues.                         *)
(***************************************************************************)
VARIABLES
    items,          \* normalized records: id -> record with gen3_discovery
    perItemValues,  \* the overrides: id -> (key -> value)
    itemsBefore,    \* items as they were when setPerItemValues was called
    merged          \* setPerItemValues has returned

perItemVars == <<items, perItemValues, itemsBefore, merged>>

MaxValue == 2

ItemIds == {"id1", "id2"}
OverrideIds == {"id1", "id3"}
ItemKeys == {"a", "b"}
OverrideKeys == {"a", "newkey"}
ItemValues == 1..MaxValue
OverrideValues == {MaxValue, 9}

\* the Python dicts with keys among K and values in V
DictSet(K, V) == UNION {[S -> V] : S \in SUBSET K}

RecordSet ==
    {[guid_type |-> "discovery_metadata", gen3_discovery |-> d] :
        d \in DictSet(ItemKeys, ItemValues)}

\* mutant: the override is stored whether or not the key exists
SetValueAlways(disc, k, v) == (k :> v) @@ disc

\* if k in items[id]["gen3_discovery"]: items[id]["gen3_discovery"][k] = v
SetValue(disc, k, v) == IF k \in DOMAIN disc THEN [disc EXCEPT ![k] = v] ELSE disc

\* for k, v in values.items(): ...   (ks: the keys not yet visited)
RECURSIVE SetItemValues(_, _, _)
SetItemValues(disc, values, ks) ==
    IF ks = {} THEN disc
    ELSE LET k == CHOOSE x \in ks : TRUE
         IN  SetItemValues(SetValue(disc, k, values[k]), values, ks \ {k})

\* for id, values in perItemValues.items(): if id in items: ...
RECURSIVE SetPerItemValuesLoop(_, _, _)
SetPerItemValuesLoop(its, piv, ids) ==
    IF ids = {} THEN its
    ELSE LET id == CHOOSE x \in ids : TRUE
             its1 == IF id \in DOMAIN its
                     THEN [its EXCEPT ![id].gen3_discovery =
                              SetItemValues(@, piv[id], DOMAIN piv[id])]
                     ELSE its
         IN  SetPerItemValuesLoop(its1, piv, ids \ {id})

setPerItemValues(its, piv) == SetPerItemValuesLoop(its, piv, DOMAIN piv)

PerItemInit ==
    /\ items \in DictSet(ItemIds, RecordSet)
    /\ perItemValues \in DictSet(OverrideIds, DictSet(OverrideKeys, OverrideValues))
    /\ itemsBefore = items
    /\ merged = FALSE

PerItemIdle ==
    /\ items = <<>>
    /\ perItemValues = <<>>
    /\ itemsBefore = <<>>
    /\ merged = FALSE

\* the call RemoteMetadataAdapter.setPerItemValues(results, perItemValues)
SetPerItemValuesCall ==
    /\ ~merged
    /\ items' = setPerItemValues(items, perItemValues)
    /\ merged' = TRUE
    /\ UNCHANGED <<perItemValues, itemsBefore>>

\* C4: setPerItemValues only overwrites existing keys: the record set and
\* each record's key set are unchanged, a value that exists in both the
\* record and the record's override takes the override's value, every other
\* value is unchanged, and overrides of unknown ids change nothing.
C4_OnlyExistingKeysOverwritten ==
    merged =>
        /\ DOMAIN items = DOMAIN itemsBefore
        /\ \A id \in DOMAIN items :
             LET now == items[id].gen3_discovery
                 was == itemsBefore[id].gen3_discovery
             IN  /\ items[id].guid_type = itemsBefore[id].guid_type
                 /\ DOMAIN now = DOMAIN was
                 /\ \A k \in DOMAIN was :
                      IF id \in DOMAIN perItemValues /\ k \in DOMAIN perItemValues[id]
                      THEN now[k] = perItemValues[id][k]
                      ELSE now[k] = was[k]

\* a merge whose override changes an existing key, brings a new key and
\* names an id that is not in the record set
C4_Witness ==
    /\ merged
    /\ "id1" \in DOMAIN items
    /\ "id1" \in DOMAIN perItemValues
    /\ "id3" \in DOMAIN perItemValues
    /\ DOMAIN perItemValues["id1"] = {"a", "newkey"}
    /\ "a" \in DOMAIN itemsBefore["id1"].gen3_discovery
    /\ items["id1"].gen3_discovery["a"] # itemsBefore["id1"].gen3_discovery["a"]

(***************************************************************************)
(* Part 3: query.py, the filter grammar (parse_filter) and FilterVisitor.   *)
(* A filter string is a sequence of one-character strings.                 *)
(***************************************************************************)
OPEN == "("
CLOSE == ")"
SEPARATOR == ","
QUOTE == "\""
BACKSLASH == "\\"

EQ == <<":", "e", "q">>
NE == <<":", "n", "e">>
GTE == <<":", "g", "t", "e">>
GT == <<":", "g", "t">>
LTE == <<":", "l", "t", "e">>
LT == <<":", "l", "t">>
LIKE == <<":", "l", "i", "k", "e">>
ALL == <<":", "a", "l", "l">>
ANY == <<":", "a", "n", "y">>
AND == <<"a", "n", "d">>
OR == <<"o", "r">>

TRUE_ == <<"t", "r", "u", "e">>
FALSE_ == <<"f", "a", "l", "s", "e">>
NULL_ == <<"n", "u", "l", "l">>

DigitChars == {"0", "1", "2", "3", "4", "5", "6", "7", "8", "9"}
LetterChars ==
    {"a", "b", "c", "d", "e", "f", "g", "h", "i", "j", "k", "l", "m", "n", "o",
     "p", "q", "r", "s", "t", "u", "v", "w", "x", "y", "z",
     "A", "B", "C", "D", "E", "F", "G", "H", "I", "J", "K", "L", "M", "N", "O",
     "P", "Q", "R", "S", "T", "U", "V", "W", "X", "Y", "Z"}

\* The expressions of a parsing expression grammar.
Expression(kind, text, chars, members) ==
    [kind |-> kind, name |-> "", text |-> text, chars |-> chars, members |-> members]
Literal(text) == Expression("literal", text, {}, <<>>)       \* "text"
CharStar(chars) == Expression("char_star", <<>>, chars, <<>>) \* ~"[chars]*"
Char(chars) == Expression("char", <<>>, chars, <<>>)          \* ~"[chars]"
QuotedString == Expression("quoted", <<>>, {}, <<>>)          \* ~'"([^"])*"'
Sequence(members) == Expression("sequence", <<>>, {}, members)    \* a b c
OneOf(members) == Expression("one_of", <<>>, {}, members)         \* a / b / c
OneOrMore(member) == Expression("one_or_more", <<>>, {}, <<member>>) \* a+
Optional(member) == Expression("optional", <<>>, {}, <<member>>)  \* a?
Ref(name) == [Expression("ref", <<>>, {}, <<>>) EXCEPT !.name = name]

\* the grammar of parse_filter, rule by rule
Rules ==
    [filter |-> OneOf(<<Ref("scalar_filter"), Ref("compound_filter"),
                        Ref("boolean_filter")>>),
     boolean_filter |-> Sequence(<<Ref("open"), Ref("boolean"),
                                   Ref("boolean_operands"), Ref("close")>>),
     boolean |-> OneOf(<<Literal(AND), Literal(OR)>>),
     boolean_operands |-> OneOrMore(Ref("boolean_operand")),
     boolean_operand |-> Sequence(<<Ref("separator"), Ref("specific_filter")>>),
     specific_filter |-> OneOf(<<Ref("scalar_filter"), Ref("compound_filter"),
                                 Ref("boolean_filter")>>),
     scalar_filter |-> Sequence(<<Ref("open"), Ref("json_key"), Ref("separator"),
                                  Ref("scalar_operator"), Ref("separator"),
                                  Ref("json_value"), Ref("close")>>),
     compound_filter |-> Sequence(<<Ref("open"), Ref("json_key"), Ref("separator"),
                                    Ref("compound_operator"), Ref("separator"),
                                    Ref("scalar_filter"), Ref("close")>>),
     json_value_or_scalar_filter |-> OneOf(<<Ref("json_value"), Ref("scalar_filter")>>),
     json_key |-> CharStar(LetterChars \cup DigitChars \cup {" ", "_", "."}),
     scalar_operator |-> OneOf(<<Literal(EQ), Literal(NE), Literal(GTE), Literal(GT),
                                 Literal(LTE), Literal(LT), Literal(LIKE)>>),
     compound_operator |-> OneOf(<<Literal(ALL), Literal(ANY)>>),
     open |-> Literal(<<OPEN>>),
     close |-> Literal(<<CLOSE>>),
     separator |-> Literal(<<SEPARATOR>>),
     json_value |-> OneOf(<<Ref("double_string"), Ref("true_false_null"), Ref("number")>>),
     double_string |-> QuotedString,
     true_false_null |-> OneOf(<<Literal(TRUE_), Literal(FALSE_), Literal(NULL_)>>),
     number |-> OneOf(<<Sequence(<<Ref("int"), Ref("frac"), Ref("exp")>>),
                        Sequence(<<Ref("int"), Ref("exp")>>),
                        Sequence(<<Ref("int"), Ref("frac")>>),
                        Ref("int")>>),
     int |-> Sequence(<<Optional(Literal(<<"-">>)),
                        OneOf(<<Sequence(<<Ref("digit1to9"), Ref("digits")>>),
                                Ref("digit")>>)>>),
     frac |-> Sequence(<<Literal(<<".">>), Ref("digits")>>),
     exp |-> Sequence(<<Ref("e"), Ref("digits")>>),
     digits |-> OneOrMore(Ref("digit")),
     e |-> OneOf(<<Literal(<<"e", "+">>), Literal(<<"e", "-">>), Literal(<<"e">>),
                   Literal(<<"E", "+">>), Literal(<<"E", "-">>), Literal(<<"E">>)>>),
     digit1to9 |-> Char(DigitChars \ {"0"}),
     digit |-> Char(DigitChars)]

\* the rule called name, carrying its name
Grammar(name) == [Rules[name] EXCEPT !.name = name]

\* a parse-tree node; end is the position after the match, 0 when no match
ParseFail == [expr_name |-> "", text |-> <<>>, children |-> <<>>, end |-> 0]
Node(e, s, i, j, cs) ==
    [expr_name |-> e.name, text |-> SubSeq(s, i, j - 1), children |-> cs, end |-> j]

MatchLit(s, i, lit) ==
    /\ i + Len(lit) - 1 <= Len(s)
    /\ SubSeq(s, i, i + Len(lit) - 1) = lit

\* the position after the longest run of characters of cs from i on
RECURSIVE RunEnd(_, _, _)
RunEnd(s, i, cs) ==
    IF i <= Len(s) /\ s[i] \in cs THEN RunEnd(s, i + 1, cs) ELSE i

\* the position after the closing quote of the string that opens at i
QuotedEnd(s, i) ==
    IF i <= Len(s) /\ s[i] = QUOTE
    THEN LET j == RunEnd(s, i + 1, {s[k] : k \in 1..Len(s)} \ {QUOTE})
         IN  IF j <= Len(s) THEN j + 1 ELSE 0
    ELSE 0

RECURSIVE Parse(_, _, _)
RECURSIVE ParseSequence(_, _, _, _, _)
RECURSIVE ParseOneOf(_, _, _, _)
RECURSIVE ParseOneOrMore(_, _, _, _, _)

\* expression e matched at position i of s: its node, or ParseFail
Parse(e, s, i) ==
    CASE e.kind = "ref" -> Parse(Grammar(e.name), s, i)
      [] e.kind = "literal" ->
           IF MatchLit(s, i, e.text)
           THEN Node(e, s, i, i + Len(e.text), <<>>) ELSE ParseFail
      [] e.kind = "char_star" -> Node(e, s, i, RunEnd(s, i, e.chars), <<>>)
      [] e.kind = "char" ->
           IF i <= Len(s) /\ s[i] \in e.chars
           THEN Node(e, s, i, i + 1, <<>>) ELSE ParseFail
      [] e.kind = "quoted" ->
           IF QuotedEnd(s, i) # 0
           THEN Node(e, s, i, QuotedEnd(s, i), <<>>) ELSE ParseFail
      [] e.kind = "sequence" -> ParseSequence(e, s, i, i, <<>>)
      [] e.kind = "one_of" -> ParseOneOf(e, s, i, 1)
      [] e.kind = "one_or_more" -> ParseOneOrMore(e, s, i, i, <<>>)
      [] e.kind = "optional" ->
           LET c == Parse(e.members[1], s, i)
           IN  IF c.end = 0 THEN Node(e, s, i, i, <<>>)
               ELSE Node(e, s, i, c.end, <<c>>)

\* a sequence: every item in turn (cs: the nodes of the members matched so
\* far, the next one starts at i)
ParseSequence(e, s, start, i, cs) ==
    IF Len(cs) = Len(e.members) THEN Node(e, s, start, i, cs)
    ELSE LET c == Parse(e.members[Len(cs) + 1], s, i)
         IN  IF c.end = 0 THEN ParseFail
             ELSE ParseSequence(e, s, start, c.end, Append(cs, c))

\* an ordered choice: the first alternative that matches, from the n-th on
ParseOneOf(e, s, i, n) ==
    IF n > Len(e.members) THEN ParseFail
    ELSE LET c == Parse(e.members[n], s, i)
         IN  IF c.end # 0 THEN Node(e, s, i, c.end, <<c>>)
             ELSE ParseOneOf(e, s, i, n + 1)

\* a repetition: as many matches as there are, at least one
ParseOneOrMore(e, s, start, i, cs) ==
    LET c == Parse(e.members[1], s, i)
    IN  IF c.end # 0 /\ c.end > i THEN ParseOneOrMore(e, s, start, c.end, Append(cs, c))
        ELSE IF Len(cs) = 0 THEN ParseFail
        ELSE Node(e, s, start, i, cs)

\* parse_filter: None for an empty string, else grammar.parse, which raises
\* ParseError when the first rule does not match and IncompleteParseError
\* when it does not match the whole string
parse_filter(s) ==
    IF Len(s) = 0 THEN [exc |-> "none", tree |-> ParseFail]
    ELSE LET t == Parse(Ref("filter"), s, 1)
         IN  IF t.end = 0 THEN [exc |-> "ParseError", tree |-> ParseFail]
             ELSE IF t.end # Len(s) + 1
             THEN [exc |-> "IncompleteParseError", tree |-> ParseFail]
             ELSE [exc |-> "none", tree |-> t]

(***************************************************************************)
(* json.loads on the text of a json_value node.                            *)
(***************************************************************************)
ControlChars == {"\t", "\n", "\r", "\f"}
SimpleEscapeChars == {QUOTE, BACKSLASH, "/", "b", "f", "n", "r", "t"}
HexChars == DigitChars \cup {"a", "b", "c", "d", "e", "f", "A", "B", "C", "D", "E", "F"}

\* the character an escape stands for (backspace has no TLA+ spelling)
Unescape(c) ==
    CASE c = "n" -> "\n" [] c = "t" -> "\t" [] c = "r" -> "\r" [] c = "f" -> "\f"
      [] c = "b" -> "<BS>" [] OTHER -> c

IsUnicodeEscape(cs, i) ==
    /\ i + 5 <= Len(cs)
    /\ cs[i + 1] = "u"
    /\ \A k \in 2..5 : cs[i + k] \in HexChars

\* the content of a JSON string decodes: no control character, and every
\* backslash starts an escape
RECURSIVE JsonStringOk(_, _)
JsonStringOk(cs, i) ==
    IF i > Len(cs) THEN TRUE
    ELSE IF cs[i] \in ControlChars THEN FALSE
    ELSE IF cs[i] # BACKSLASH THEN JsonStringOk(cs, i + 1)
    ELSE IF i + 1 <= Len(cs) /\ cs[i + 1] \in SimpleEscapeChars
    THEN JsonStringOk(cs, i + 2)
    ELSE IF IsUnicodeEscape(cs, i) THEN JsonStringOk(cs, i + 6)
    ELSE FALSE

\* the decoded content (a \uXXXX escape decodes to one character, written
\* here "<U>" whatever its code point)
RECURSIVE JsonStringDecode(_, _)
JsonStringDecode(cs, i) ==
    IF i > Len(cs) THEN <<>>
    ELSE IF cs[i] # BACKSLASH THEN <<cs[i]>> \o JsonStringDecode(cs, i + 1)
    ELSE IF cs[i + 1] = "u" THEN <<"<U>">> \o JsonStringDecode(cs, i + 6)
    ELSE <<Unescape(cs[i + 1])>> \o JsonStringDecode(cs, i + 2)

DigitValue(c) ==
    CASE c = "0" -> 0 [] c = "1" -> 1 [] c = "2" -> 2 [] c = "3" -> 3
      [] c = "4" -> 4 [] c = "5" -> 5 [] c = "6" -> 6 [] c = "7" -> 7
      [] c = "8" -> 8 [] c = "9" -> 9

\* the value of the digits cs[1..n]
RECURSIVE DigitsValue(_, _)
DigitsValue(cs, n) ==
    IF n = 0 THEN 0 ELSE 10 * DigitsValue(cs, n - 1) + DigitValue(cs[n])

\* JSON values: jtype is string, number, boolean, null or array; a number
\* with a fraction or an exponent keeps that part's text in str
JsonValue(jtype, num, str, elems) ==
    [jtype |-> jtype, num |-> num, str |-> str, elems |-> elems]
JsonString(cs) == JsonValue("string", 0, cs, <<>>)
JsonNumber(n) == JsonValue("number", n, <<>>, <<>>)
JsonBoolean(b) == JsonValue("boolean", IF b THEN 1 ELSE 0, <<>>, <<>>)
JsonNull == JsonValue("null", 0, <<>>, <<>>)
JsonArray(es) == JsonValue("array", 0, <<>>, es)

\* json.loads(text) raises
JsonLoadsRaises(text) ==
    /\ text[1] = QUOTE
    /\ ~JsonStringOk(SubSeq(text, 2, Len(text) - 1), 1)

\* json.loads(text), for a text that decodes
JsonLoads(text) ==
    IF text[1] = QUOTE
    THEN JsonString(JsonStringDecode(SubSeq(text, 2, Len(text) - 1), 1))
    ELSE IF text = TRUE_ THEN JsonBoolean(TRUE)
    ELSE IF text = FALSE_ THEN JsonBoolean(FALSE)
    ELSE IF text = NULL_ THEN JsonNull
    ELSE LET neg == text[1] = "-"
             first == IF neg THEN 2 ELSE 1
             iend == RunEnd(text, first, DigitChars)
             n == DigitsValue(SubSeq(text, first, iend - 1), iend - first)
         IN  JsonValue("number", IF neg THEN 0 - n ELSE n,
                       SubSeq(text, iend, Len(text)), <<>>)

(***************************************************************************)
(* FilterVisitor.                                                          *)
(***************************************************************************)
\* a visit method raises somewhere in the tree: NodeVisitor.visit wraps the
\* exception in a VisitationError
RECURSIVE VisitRaises(_)
VisitRaises(node) ==
    IF node.expr_name = "json_value" THEN JsonLoadsRaises(node.text)
    ELSE \E k \in 1..Len(node.children) : VisitRaises(node.children[k])

\* NodeVisitor.visit: the method named after the node's rule, applied to the
\* node and its visited children
RECURSIVE Visit(_)
Visit(node) ==
    LET visited_children == [k \in 1..Len(node.children) |-> Visit(node.children[k])]
    IN  CASE node.expr_name \in {"filter", "specific_filter",
                                  "json_value_or_scalar_filter"} ->
               visited_children[1]
          [] node.expr_name = "boolean_filter" ->
               \* {boolean: boolean_operands}
               IF visited_children[2] = AND
               THEN [and |-> visited_children[3]]
               ELSE [or |-> visited_children[3]]
          [] node.expr_name = "boolean_operand" -> visited_children[2]
          [] node.expr_name \in {"scalar_filter", "compound_filter"} ->
               [name |-> visited_children[2], op |-> visited_children[4],
                val |-> visited_children[6]]
          [] node.expr_name \in {"boolean", "json_key", "scalar_operator",
                                  "compound_operator"} ->
               node.text
          [] node.expr_name = "json_value" -> JsonLoads(node.text)
          \* generic_visit: visited_children or node
          [] OTHER -> IF Len(node.children) > 0 THEN visited_children ELSE node

(***************************************************************************)
(* Part 4: query.py, the clause search_metadata_helper builds from          *)
(* filter_dict (add_filter, get_any_sql_clause, get_all_sql_clause,         *)
(* get_sqlalchemy_clause) and its evaluation by the store on one row.       *)
(***************************************************************************)
\* SQL values: a jsonb, a text, an integer, a boolean or NULL
SqlValue(kind, json, text) == [kind |-> kind, json |-> json, text |-> text]
Jsonb(v) == SqlValue("jsonb", v, <<>>)
Text(t) == SqlValue("text", JsonNull, t)
SqlNull == SqlValue("null", JsonNull, <<>>)

\* a clause: a comparison of the value at a path of the data column, a
\* quantifier over the elements of the array at a path, or a conjunction or
\* disjunction of clauses
Clause(kind, path, op, astext, operand, castJsonb, clauses) ==
    [kind |-> kind, path |-> path, op |-> op, astext |-> astext,
     operand |-> operand, castJsonb |-> castJsonb, clauses |-> clauses]
NoClause == Clause("none", <<>>, <<>>, FALSE, JsonNull, FALSE, <<>>)

\* the operators dict
operators ==
    [o \in {EQ, NE, GT, GTE, LT, LTE} |-> [type |-> "", sql_clause |-> ""]]
    @@ (LIKE :> [type |-> "text", sql_clause |-> ""])
    @@ (ALL :> [type |-> "", sql_clause |-> "get_all_sql_clause"])
    @@ (ANY :> [type |-> "", sql_clause |-> "get_any_sql_clause"])

\* mutant: every operator compares text
IsTextOperatorAlways(operator_name) == operator_name \in DOMAIN operators

\* "type" in operators[operator_name] and operators[operator_name]["type"] == "text"
IsTextOperator(operator_name) == operators[operator_name].type = "text"

\* str.split
RECURSIVE Split(_, _)
Split(s, sep) ==
    IF \E i \in 1..Len(s) : s[i] = sep
    THEN LET i == CHOOSE i \in 1..Len(s) :
                      s[i] = sep /\ \A j \in 1..(i - 1) : s[j] # sep
         IN  <<SubSeq(s, 1, i - 1)>> \o Split(SubSeq(s, i + 1, Len(s)), sep)
    ELSE <<s>>

\* the comparison of add_filter: the path as text against the operand for a
\* text operator, else the path against cast(right_operand, JSONB)
ScalarClause(path, operator_name, right_operand) ==
    IF IsTextOperator(operator_name)
    THEN Clause("compare", path, operator_name, TRUE, right_operand, FALSE, <<>>)
    ELSE Clause("compare", path, operator_name, FALSE, right_operand, TRUE, <<>>)

\* mutant: :any compiled as :all
get_any_sql_clauseAsAll(target_json_key, scalar_operator_name, scalar_right_operand) ==
    IF IsTextOperator(scalar_operator_name)
    THEN Clause("count_eq", target_json_key, scalar_operator_name, TRUE,
                scalar_right_operand, FALSE, <<>>)
    ELSE Clause("count_eq", target_json_key, scalar_operator_name, FALSE,
                scalar_right_operand, TRUE, <<>>)

\* exists(select * from jsonb_array_elements[_text](key) where element op operand)
get_any_sql_clause(target_json_key, scalar_operator_name, scalar_right_operand) ==
    IF IsTextOperator(scalar_operator_name)
    THEN Clause("exists", target_json_key, scalar_operator_name, TRUE,
                scalar_right_operand, FALSE, <<>>)
    ELSE Clause("exists", target_json_key, scalar_operator_name, FALSE,
                scalar_right_operand, TRUE, <<>>)

\* mutant: :all compiled as :any
get_all_sql_clauseAsAny(target_json_key, scalar_operator_name, scalar_right_operand) ==
    get_any_sql_clause(target_json_key, scalar_operator_name, scalar_right_operand)

\* jsonb_array_length(key) = (select count(*) from
\* jsonb_array_elements[_text](key) where element op operand)
get_all_sql_clause(target_json_key, scalar_operator_name, scalar_right_operand) ==
    IF IsTextOperator(scalar_operator_name)
    THEN Clause("count_eq", target_json_key, scalar_operator_name, TRUE,
                scalar_right_operand, FALSE, <<>>)
    ELSE Clause("count_eq", target_json_key, scalar_operator_name, FALSE,
                scalar_right_operand, TRUE, <<>>)

\* mutant: the operand's type is not tested
add_filterNoTypeTest(target_key, operator_name, right_operand) ==
    ScalarClause(Split(target_key, "."), operator_name, right_operand)

\* a dict right operand makes the filter a compound one
add_filter(target_key, operator_name, right_operand) ==
    LET json_object == Split(target_key, ".")
    IN  IF "op" \in DOMAIN right_operand
        THEN IF operators[operator_name].sql_clause = "get_any_sql_clause"
             THEN get_any_sql_clause(json_object, right_operand.op, right_operand.val)
             ELSE get_all_sql_clause(json_object, right_operand.op, right_operand.val)
        ELSE ScalarClause(json_object, operator_name, right_operand)

\* mutant: db.and_ builds a disjunction
and_AsOr(clauses) == Clause("or", <<>>, <<>>, FALSE, JsonNull, FALSE, clauses)

and_(clauses) == Clause("and", <<>>, <<>>, FALSE, JsonNull, FALSE, clauses)
or_(clauses) == Clause("or", <<>>, <<>>, FALSE, JsonNull, FALSE, clauses)

\* a dict of one key is a boolean filter, whose operands are compiled in turn
RECURSIVE get_sqlalchemy_clause(_)
get_sqlalchemy_clause(d) ==
    IF DOMAIN d = {} THEN NoClause
    ELSE IF Cardinality(DOMAIN d) = 1
    THEN LET boolean == CHOOSE b \in DOMAIN d : TRUE
             boolean_operand_clauses ==
                 [i \in 1..Len(d[boolean]) |-> get_sqlalchemy_clause(d[boolean][i])]
         IN  IF boolean = "and" THEN and_(boolean_operand_clauses)
             ELSE or_(boolean_operand_clauses)
    ELSE add_filter(d.name, d.op, d.val)

(***************************************************************************)
(* The store's evaluation of a clause on the data column of one row.       *)
(* The data column is a JSON object: a function from keys to JSON values.  *)
(***************************************************************************)
\* a path element that indexes an array
IsIndex(key) == Len(key) > 0 /\ \A i \in 1..Len(key) : key[i] \in DigitChars

\* value #> path, for the rest of a path below the top-level object
RECURSIVE ExtractRest(_, _)
ExtractRest(v, path) ==
    IF Len(path) = 0 THEN Jsonb(v)
    ELSE IF /\ v.jtype = "array"
            /\ IsIndex(path[1])
            /\ DigitsValue(path[1], Len(path[1])) < Len(v.elems)
    THEN ExtractRest(v.elems[DigitsValue(path[1], Len(path[1])) + 1], Tail(path))
    ELSE SqlNull

\* data #> path: NULL when the path leads nowhere
ExtractPath(data, path) ==
    IF path[1] \in DOMAIN data THEN ExtractRest(data[path[1]], Tail(path))
    ELSE SqlNull

DigitChar(n) == CHOOSE c \in DigitChars : DigitValue(c) = n

RECURSIVE IntText(_)
IntText(n) ==
    IF n < 0 THEN <<"-">> \o IntText(0 - n)
    ELSE IF n < 10 THEN <<DigitChar(n)>>
    ELSE IntText(n \div 10) \o <<DigitChar(n % 10)>>

\* the text of a jsonb value
RECURSIVE JsonText(_)
JsonText(v) ==
    CASE v.jtype = "string" -> <<QUOTE>> \o v.str \o <<QUOTE>>
      [] v.jtype = "number" -> IntText(v.num) \o v.str
      [] v.jtype = "boolean" -> IF v.num = 1 THEN TRUE_ ELSE FALSE_
      [] v.jtype = "null" -> NULL_
      [] v.jtype = "array" ->
           LET texts == [i \in 1..Len(v.elems) |->
                           (IF i > 1 THEN <<",", " ">> ELSE <<>>) \o JsonText(v.elems[i])]
               Concat[i \in 0..Len(texts)] ==
                   IF i = 0 THEN <<>> ELSE Concat[i - 1] \o texts[i]
           IN  <<"[">> \o Concat[Len(texts)] \o <<"]">>

\* .astext (#>>) and jsonb_array_elements_text: a string without its quotes,
\* NULL for a JSON null, else the value's text
AsText(x) ==
    IF x.kind = "null" \/ x.json.jtype = "null" THEN SqlNull
    ELSE IF x.json.jtype = "string" THEN Text(x.json.str)
    ELSE Text(JsonText(x.json))

\* text LIKE pattern: % is any run of characters, _ any one character, a
\* backslash takes the next character literally
RECURSIVE Like(_, _)
Like(t, p) ==
    IF Len(p) = 0 THEN Len(t) = 0
    ELSE IF p[1] = "%"
    THEN \E k \in 0..Len(t) : Like(SubSeq(t, k + 1, Len(t)), Tail(p))
    ELSE IF p[1] = "_" THEN Len(t) > 0 /\ Like(Tail(t), Tail(p))
    ELSE IF p[1] = BACKSLASH /\ Len(p) > 1
    THEN Len(t) > 0 /\ t[1] = p[2] /\ Like(Tail(t), SubSeq(p, 3, Len(p)))
    ELSE Len(t) > 0 /\ t[1] = p[1] /\ Like(Tail(t), Tail(p))

\* the characters in ascending order
CharOrder ==
    <<"%", "0", "1", "2", "3", "4", "5", "6", "7", "8", "9",
      "A", "B", "C", "D", "E", "F", "G", "H", "I", "J", "K", "L", "M",
      "N", "O", "P", "Q", "R", "S", "T", "U", "V", "W", "X", "Y", "Z", "_",
      "a", "b", "c", "d", "e", "f", "g", "h", "i", "j", "k", "l", "m",
      "n", "o", "p", "q", "r", "s", "t", "u", "v", "w", "x", "y", "z">>
CharCode(c) == CHOOSE i \in 1..Len(CharOrder) : CharOrder[i] = c

Sign(n) == IF n < 0 THEN 0 - 1 ELSE IF n > 0 THEN 1 ELSE 0

\* the order of two texts: negative, zero or positive
RECURSIVE TextCmp(_, _)
TextCmp(a, b) ==
    IF Len(a) = 0 \/ Len(b) = 0 THEN Sign(Len(a) - Len(b))
    ELSE IF a[1] # b[1] THEN Sign(CharCode(a[1]) - CharCode(b[1]))
    ELSE TextCmp(Tail(a), Tail(b))

\* jsonb orders values of different types by type:
\* Array > Boolean > Number > String > Null
TypeRank(v) ==
    CASE v.jtype = "null" -> 0 [] v.jtype = "string" -> 1 [] v.jtype = "number" -> 2
      [] v.jtype = "boolean" -> 3 [] v.jtype = "array" -> 4

\* the order of two jsonb values (numbers: integers)
RECURSIVE JsonbCmp(_, _)
JsonbCmp(a, b) ==
    IF TypeRank(a) # TypeRank(b) THEN Sign(TypeRank(a) - TypeRank(b))
    ELSE CASE a.jtype = "string" -> TextCmp(a.str, b.str)
           [] a.jtype \in {"number", "boolean"} -> Sign(a.num - b.num)
           [] a.jtype = "null" -> 0
           [] a.jtype = "array" ->
                IF Len(a.elems) # Len(b.elems) THEN Sign(Len(a.elems) - Len(b.elems))
                ELSE IF \A i \in 1..Len(a.elems) : JsonbCmp(a.elems[i], b.elems[i]) = 0
                THEN 0
                ELSE LET i == CHOOSE i \in 1..Len(a.elems) :
                                  /\ JsonbCmp(a.elems[i], b.elems[i]) # 0
                                  /\ \A j \in 1..(i - 1) :
                                         JsonbCmp(a.elems[j], b.elems[j]) = 0
                     IN  JsonbCmp(a.elems[i], b.elems[i])

\* the three truth values of SQL, and "ERROR" for a statement that fails
Bool3(b) == IF b THEN "TRUE" ELSE "FALSE"

\* a right operand that is not cast is bound with its Python type
Bind(v) ==
    IF v.jtype = "string" THEN Text(v.str)
    ELSE IF v.jtype = "null" THEN SqlNull
    ELSE SqlValue(v.jtype, v, <<>>)

\* the right-hand side of the comparison of a clause
RightOperand(clause) ==
    IF clause.castJsonb THEN Jsonb(clause.operand) ELSE Bind(clause.operand)

\* the statement compares values of two types: the store rejects it
TypeError(clause) ==
    RightOperand(clause).kind \notin {"null", IF clause.astext THEN "text" ELSE "jsonb"}

\* the sql_comparator of an operator on two values of one type
sql_comparator(operator_name, l, r) ==
    IF l.kind = "null" \/ r.kind = "null" THEN "NULL"
    ELSE IF operator_name = LIKE THEN Bool3(Like(l.text, r.text))
    ELSE LET c == IF l.kind = "text" THEN TextCmp(l.text, r.text)
                  ELSE JsonbCmp(l.json, r.json)
         IN  Bool3(CASE operator_name = EQ -> c = 0
                     [] operator_name = NE -> c # 0
                     [] operator_name = GT -> c > 0
                     [] operator_name = GTE -> c >= 0
                     [] operator_name = LT -> c < 0
                     [] operator_name = LTE -> c <= 0)

\* jsonb_array_elements and jsonb_array_elements_text: no row for NULL
jsonb_array_elements(x, astext) ==
    IF x.kind = "null" THEN <<>>
    ELSE [i \in 1..Len(x.json.elems) |->
             IF astext THEN AsText(Jsonb(x.json.elems[i])) ELSE Jsonb(x.json.elems[i])]

\* AND and OR over three truth values
And3(rs) ==
    IF \E i \in 1..Len(rs) : rs[i] = "ERROR" THEN "ERROR"
    ELSE IF \E i \in 1..Len(rs) : rs[i] = "FALSE" THEN "FALSE"
    ELSE IF \E i \in 1..Len(rs) : rs[i] = "NULL" THEN "NULL"
    ELSE "TRUE"
Or3(rs) ==
    IF \E i \in 1..Len(rs) : rs[i] = "ERROR" THEN "ERROR"
    ELSE IF \E i \in 1..Len(rs) : rs[i] = "TRUE" THEN "TRUE"
    ELSE IF \E i \in 1..Len(rs) : rs[i] = "NULL" THEN "NULL"
    ELSE "FALSE"

\* the value of the WHERE clause on a row whose data column is data; the row
\* is returned iff the value is "TRUE"
RECURSIVE Evaluate(_, _)
Evaluate(clause, data) ==
    LET target == ExtractPath(data, clause.path)
        right == RightOperand(clause)
        elements == jsonb_array_elements(target, clause.astext)
        satisfied == [i \in 1..Len(elements) |->
                       sql_comparator(clause.op, elements[i], right)]
    IN  IF clause.kind = "none" THEN "TRUE"
        ELSE IF clause.kind = "and"
        THEN And3([i \in 1..Len(clause.clauses) |-> Evaluate(clause.clauses[i], data)])
        ELSE IF clause.kind = "or"
        THEN Or3([i \in 1..Len(clause.clauses) |-> Evaluate(clause.clauses[i], data)])
        ELSE IF TypeError(clause) THEN "ERROR"
        ELSE IF clause.kind = "compare"
        THEN sql_comparator(clause.op,
                            IF clause.astext THEN AsText(target) ELSE target, right)
        \* the set-returning functions fail on a value that is not an array
        ELSE IF target.kind # "null" /\ target.json.jtype # "array" THEN "ERROR"
        ELSE IF clause.kind = "exists"
        THEN Bool3(\E i \in 1..Len(satisfied) : satisfied[i] = "TRUE")
        \* jsonb_array_length(NULL) is NULL
        ELSE IF target.kind = "null" THEN "NULL"
        ELSE Bool3(Len(target.json.elems)
                   = Cardinality({i \in 1..Len(satisfied) : satisfied[i] = "TRUE"}))

(***************************************************************************)
(* search_metadata_helper: from the filter string to the rows returned.     *)
(***************************************************************************)
VARIABLES
    filter,         \* the filter query parameter
    edited,         \* the string was edited since it was chosen
    http_status,    \* 0 before the call, then 200, 400 or 500
    exception,      \* the exception raised while parsing and visiting
    filter_dict,    \* the visitor's result
    where_applied,  \* query.where(get_sqlalchemy_clause(filter_dict)) was called
    row,            \* the data column of a row of the metadata table
    matched,        \* the value of the WHERE clause on the row ("unset" before)
    nesting         \* the number of boolean filters nested in the filter

parseVars ==
    <<filter, edited, http_status, exception, filter_dict, where_applied,
      row, matched, nesting>>

HTTP_400_BAD_REQUEST == 400

\* mutant: the handler forgets the visitor's exception
CaughtExceptionsNoVisitation == {"IncompleteParseError", "ParseError"}

\* except (IncompleteParseError, ParseError, VisitationError)
CaughtExceptions == {"IncompleteParseError", "ParseError", "VisitationError"}

EmptyDict == [x \in {} |-> 0]

\* the try block: [exc, dict]
ParseAndVisit(s) ==
    LET p == parse_filter(s)
    IN  IF p.exc # "none" THEN [exc |-> p.exc, dict |-> EmptyDict]
        ELSE IF p.tree.end = 0 THEN [exc |-> "none", dict |-> EmptyDict]
        ELSE IF VisitRaises(p.tree) THEN [exc |-> "VisitationError", dict |-> EmptyDict]
        ELSE [exc |-> "none", dict |-> Visit(p.tree)]

\* filter strings written from their parts
ScalarText(key, op, value) ==
    <<OPEN>> \o key \o <<SEPARATOR>> \o op \o <<SEPARATOR>> \o value \o <<CLOSE>>
BooleanText(boolean, operands) ==
    <<OPEN>> \o boolean \o operands \o <<CLOSE>>
OperandText(f) == <<SEPARATOR>> \o f

\* well-formed filters of the three kinds, nested to depth 3, the empty
\* string, a boolean filter without operand, and a well-formed filter that
\* the store rejects
BaseFilters ==
    LET s1 == ScalarText(<<"a">>, EQ, <<"1">>)
        s2 == ScalarText(<<"b">>, LT, <<"2">>)
        c1 == ScalarText(<<"a">>, ANY, ScalarText(<<>>, EQ, <<"1">>))
    IN  { <<>>,
          s1,
          ScalarText(<<"a", ".", "b">>, GTE, <<QUOTE, "x", QUOTE>>),
          ScalarText(<<"a">>, LIKE, <<QUOTE, "x", "%", QUOTE>>),
          ScalarText(<<"a">>, LTE, <<"-", "1", ".", "5", "e", "+", "2">>),
          ScalarText(<<"a">>, NE, NULL_),
          c1,
          ScalarText(<<"a">>, ALL, ScalarText(<<>>, LIKE, <<QUOTE, "x", QUOTE>>)),
          BooleanText(AND, OperandText(s1)),
          BooleanText(OR, OperandText(s1) \o OperandText(c1)),
          BooleanText(AND,
              OperandText(BooleanText(OR,
                  OperandText(BooleanText(AND, OperandText(s1)))
                  \o OperandText(c1)))
              \o OperandText(s2)),
          BooleanText(AND, <<>>),
          ScalarText(<<"a">>, LIKE, <<"1">>) }

\* the characters an edit writes
EditChars == {OPEN, CLOSE, SEPARATOR, ":", QUOTE, BACKSLASH, "a", "n", "1"}

\* a row without data
EmptyRow == [key \in {} |-> JsonNull]

\* the helper was not called yet with filter f on row r
NotCalled(f, r) ==
    /\ filter = f
    /\ edited = FALSE
    /\ http_status = 0
    /\ exception = "none"
    /\ filter_dict = EmptyDict
    /\ where_applied = FALSE
    /\ row = r
    /\ matched = "unset"
    /\ nesting = 0

ParseInit == \E f \in BaseFilters : NotCalled(f, EmptyRow)

ParseIdle == NotCalled(<<>>, EmptyRow)

\* the client sends any string: one character of the filter is deleted
DeleteChar ==
    /\ ~edited /\ http_status = 0
    /\ \E i \in 1..Len(filter) :
         filter' = SubSeq(filter, 1, i - 1) \o SubSeq(filter, i + 1, Len(filter))
    /\ edited' = TRUE
    /\ UNCHANGED <<http_status, exception, filter_dict, where_applied, row, matched, nesting>>

\* one character is inserted
InsertChar ==
    /\ ~edited /\ http_status = 0
    /\ \E i \in 0..Len(filter), c \in EditChars :
         filter' = SubSeq(filter, 1, i) \o <<c>> \o SubSeq(filter, i + 1, Len(filter))
    /\ edited' = TRUE
    /\ UNCHANGED <<http_status, exception, filter_dict, where_applied, row, matched, nesting>>

\* one character is replaced
ReplaceChar ==
    /\ ~edited /\ http_status = 0
    /\ \E i \in 1..Len(filter), c \in EditChars :
         /\ c # filter[i]
         /\ filter' = [filter EXCEPT ![i] = c]
    /\ edited' = TRUE
    /\ UNCHANGED <<http_status, exception, filter_dict, where_applied, row, matched, nesting>>

\* search_metadata_helper: an exception the handler does not catch and a
\* statement the store rejects are server faults
Search ==
    /\ http_status = 0
    /\ LET r == ParseAndVisit(filter)
       IN  /\ exception' = r.exc
           /\ filter_dict' = r.dict
    /\ where_applied' = (exception' = "none" /\ DOMAIN filter_dict' # {})
    /\ matched' = IF exception' = "none"
                  THEN Evaluate(get_sqlalchemy_clause(filter_dict'), row)
                  ELSE "unset"
    /\ http_status' = IF exception' \in CaughtExceptions THEN HTTP_400_BAD_REQUEST
                      ELSE IF exception' # "none" \/ matched' = "ERROR" THEN 500
                      ELSE 200
    /\ UNCHANGED <<filter, edited, row, nesting>>

(***************************************************************************)
(* Rows and filters for the comparison and quantifier operators.           *)
(***************************************************************************)
MaxArrayLen == 2
MaxNesting == 3

KeyK == <<"k">>
KeyTags == <<"t", "a", "g", "s">>

\* the values of k and the elements of tags
ElementValues ==
    {JsonNumber(3), JsonNumber(4), JsonString(<<"3">>), JsonString(<<"a", "b">>)}
ScalarValues == ElementValues \cup {JsonBoolean(TRUE), JsonNull}
ArrayValues ==
    {JsonArray(es) : es \in UNION {[1..n -> ElementValues] : n \in 0..MaxArrayLen}}
    \cup {JsonArray(<<JsonNull, JsonString(<<"3">>)>>)}

\* the data column with the members k and tags that are given
Row(K, T) ==
    [key \in {KeyK : v \in K} \cup {KeyTags : v \in T} |->
        IF key = KeyK THEN CHOOSE v \in K : TRUE ELSE CHOOSE v \in T : TRUE]
Rows ==
    {Row(K, T) : K \in {{}} \cup {{v} : v \in ScalarValues},
                 T \in {{}, {JsonNumber(3)}} \cup {{v} : v \in ArrayValues}}

ComparisonOperators == {EQ, NE, GT, GTE, LT, LTE}
Operands == {JsonNumber(3), JsonString(<<"3">>)}
Patterns ==
    {JsonString(<<"3">>), JsonString(<<"%">>), JsonString(<<"a", "%">>),
     JsonString(<<"_">>)}

\* (k,op,v), (tags,:any,(,op,v)), (tags,:all,(,op,v)) and (tags.0,op,v)
ScalarFilters ==
    {ScalarText(KeyK, op, JsonText(v)) : op \in ComparisonOperators, v \in Operands}
    \cup {ScalarText(KeyK, LIKE, JsonText(v)) : v \in Patterns \cup {JsonNumber(3)}}
    \cup {ScalarText(KeyTags \o <<".", "0">>, EQ, JsonText(v)) : v \in Operands}
CompoundFilters ==
    {ScalarText(KeyTags, q, ScalarText(<<>>, op, JsonText(v))) :
        q \in {ANY, ALL}, op \in ComparisonOperators, v \in Operands}
    \cup {ScalarText(KeyTags, q, ScalarText(<<>>, LIKE, JsonText(v))) :
            q \in {ANY, ALL}, v \in Patterns}

SearchInit == \E f \in ScalarFilters \cup CompoundFilters, r \in Rows : NotCalled(f, r)

\* rows and filters for the boolean filters
BooleanRows ==
    {Row(K, T) : K \in {{}, {JsonNumber(3)}, {JsonNumber(4)}},
                 T \in {{}, {JsonArray(<<JsonNumber(3), JsonNumber(4)>>)}}}
InnerFilters ==
    {ScalarText(KeyK, EQ, <<"3">>),
     ScalarText(KeyK, GT, <<"3">>),
     ScalarText(KeyTags, ANY, ScalarText(<<>>, EQ, <<"4">>)),
     ScalarText(KeyTags, ALL, ScalarText(<<>>, EQ, <<"3">>))}
\* what a boolean filter holds after its first operand
MoreOperands ==
    {<<>>, OperandText(ScalarText(KeyK, NE, <<"4">>))}

BooleanInit == \E f \in InnerFilters, r \in BooleanRows : NotCalled(f, r)

\* the client nests the filter in an "and" filter
WrapAnd ==
    /\ http_status = 0 /\ nesting < MaxNesting
    /\ \E more \in MoreOperands :
         filter' = BooleanText(AND, OperandText(filter) \o more)
    /\ nesting' = nesting + 1
    /\ UNCHANGED <<edited, http_status, exception, filter_dict, where_applied, row, matched>>

\* the client nests the filter in an "or" filter
WrapOr ==
    /\ http_status = 0 /\ nesting < MaxNesting
    /\ \E more \in MoreOperands :
         filter' = BooleanText(OR, OperandText(filter) \o more)
    /\ nesting' = nesting + 1
    /\ UNCHANGED <<edited, http_status, exception, filter_dict, where_applied, row, matched>>

\* the filter with every string literal, quotes included, blanked out by
\* quote characters (a literal runs from a quote to the next quote)
RECURSIVE MaskLiterals(_, _, _)
MaskLiterals(s, i, inside) ==
    IF i > Len(s) THEN <<>>
    ELSE IF s[i] = QUOTE THEN <<QUOTE>> \o MaskLiterals(s, i + 1, ~inside)
    ELSE <<IF inside THEN QUOTE ELSE s[i]>> \o MaskLiterals(s, i + 1, inside)

\* the number of characters c among the first n of s
RECURSIVE CountChar(_, _, _)
CountChar(s, c, n) ==
    IF n = 0 THEN 0
    ELSE CountChar(s, c, n - 1) + (IF s[n] = c THEN 1 ELSE 0)

\* some string literal of s holds a backslash that starts no escape
BadEscape(s) ==
    \E i \in 1..Len(s) :
        /\ s[i] = BACKSLASH
        /\ MaskLiterals(s, 1, FALSE)[i] = QUOTE
        /\ \/ i = Len(s)
           \/ s[i + 1] \notin SimpleEscapeChars \cup {"u"}

\* the malformations the filter syntax rules out, stated on the string
Malformed(s) ==
    LET m == MaskLiterals(s, 1, FALSE)
    IN  \/ \* unbalanced parentheses
           CountChar(m, OPEN, Len(m)) # CountChar(m, CLOSE, Len(m))
        \/ \E n \in 1..Len(m) : CountChar(m, CLOSE, n) > CountChar(m, OPEN, n)
        \/ \* an unterminated string literal
           CountChar(s, QUOTE, Len(s)) % 2 = 1
        \/ \* an unknown operator
           \E i \in 1..Len(m) :
               /\ m[i] = ":"
               /\ \A k \in 1..7 : ~MatchLit(m, i, Rules.scalar_operator.members[k].text)
               /\ \A k \in 1..2 : ~MatchLit(m, i, Rules.compound_operator.members[k].text)
        \/ \* text before or after the filter
           Len(m) > 0 /\ (m[1] # OPEN \/ m[Len(m)] # CLOSE)
        \/ \* a boolean filter without operand
           \E i \in 1..Len(m) :
               MatchLit(m, i, BooleanText(AND, <<>>)) \/ MatchLit(m, i, BooleanText(OR, <<>>))
        \/ \* a value that does not decode
           BadEscape(s)

\* C5: for every filter string, a failure to parse or to decode it is
\* answered 400, never by a server fault: a malformed string (unbalanced
\* parentheses, unknown operator, text around the filter, a boolean filter
\* without operand, a value that does not decode) is answered 400 and no
\* query is run; a non-empty string that is not answered 400 was accepted as
\* a well-formed filter and is never answered unfiltered: its clause is
\* applied to the query (which then succeeds, unless the store rejects the
\* statement).
C5_MalformedFilterIs400 ==
    http_status # 0 =>
        /\ exception # "none" \/ Malformed(filter) => http_status = HTTP_400_BAD_REQUEST
        /\ http_status # HTTP_400_BAD_REQUEST =>
              /\ exception = "none"
              /\ Len(filter) > 0 => where_applied /\ DOMAIN filter_dict # {}
              /\ http_status = 200 \/ matched = "ERROR"
        /\ http_status = HTTP_400_BAD_REQUEST => ~where_applied /\ matched = "unset"

\* the grammar matched the whole string, and a value did not decode
C5_Witness ==
    /\ http_status = HTTP_400_BAD_REQUEST
    /\ exception = "VisitationError"
    /\ BadEscape(filter)

\* the helper ran the query with a compound filter with quantifier q on a row
\* whose member at the filter's name is an array, and the store accepted it
QuantifierRan(q) ==
    /\ http_status = 200
    /\ "op" \in DOMAIN filter_dict
    /\ filter_dict.op = q
    /\ filter_dict.name \in DOMAIN row
    /\ row[filter_dict.name].jtype = "array"

\* value v alone, as the member k of a row, satisfies the scalar filter (k,op,operand)
Satisfies(v, op, operand) ==
    Evaluate(add_filter(KeyK, op, operand), KeyK :> v) = "TRUE"

\* C6: (name,:all,(,op,v)) matches a row iff every element of the array at
\* name satisfies the scalar comparison op v; a row whose array is empty
\* matches.
C6_AllMatchesEveryElement ==
    QuantifierRan(ALL) =>
        LET elems == row[filter_dict.name].elems
        IN  /\ matched \in {"TRUE", "FALSE"}
            /\ matched = "TRUE" <=>
                  \A i \in 1..Len(elems) :
                      Satisfies(elems[i], filter_dict.val.op, filter_dict.val.val)
            /\ Len(elems) = 0 => matched = "TRUE"

\* an :all filter ran on an empty array and the row matched
C6_Witness ==
    /\ QuantifierRan(ALL)
    /\ Len(row[KeyTags].elems) = 0
    /\ matched = "TRUE"

\* C7: (name,:any,(,op,v)) matches a row iff at least one element of the
\* array at name satisfies the scalar comparison op v; a row whose array is
\* empty never matches.
C7_AnyMatchesSomeElement ==
    QuantifierRan(ANY) =>
        LET elems == row[filter_dict.name].elems
        IN  /\ matched \in {"TRUE", "FALSE"}
            /\ matched = "TRUE" <=>
                  \E i \in 1..Len(elems) :
                      Satisfies(elems[i], filter_dict.val.op, filter_dict.val.val)
            /\ Len(elems) = 0 => matched = "FALSE"

\* an :any filter matched an array of which one element only satisfies the
\* comparison
C7_Witness ==
    /\ QuantifierRan(ANY)
    /\ row[KeyTags] = JsonArray(<<JsonNumber(4), JsonNumber(3)>>)
    /\ filter_dict.val.op = EQ /\ filter_dict.val.val = JsonNumber(3)
    /\ matched = "TRUE"

\* the boolean formula of a filter on a row: an "and" filter holds iff every
\* operand holds, an "or" filter iff some operand holds, a scalar or compound
\* filter iff its own clause matches the row
RECURSIVE Holds(_, _)
Holds(d, data) ==
    IF "and" \in DOMAIN d THEN \A i \in 1..Len(d["and"]) : Holds(d["and"][i], data)
    ELSE IF "or" \in DOMAIN d THEN \E i \in 1..Len(d["or"]) : Holds(d["or"][i], data)
    ELSE Evaluate(add_filter(d.name, d.op, d.val), data) = "TRUE"

\* C8: for every boolean filter, nested to depth 3 and more, the compiled
\* clause matches a row iff the boolean formula over its operands holds.
C8_BooleanClauseMatchesFormula ==
    http_status = 200 /\ DOMAIN filter_dict # {} =>
        (matched = "TRUE" <=> Holds(filter_dict, row))

\* a filter of three nested boolean filters, "and" and "or" among them, with
\* two operands at the top, matched a row on which one operand is NULL
C8_Witness ==
    /\ http_status = 200
    /\ nesting >= 3
    /\ matched = "TRUE"
    /\ "or" \in DOMAIN filter_dict
    /\ Len(filter_dict["or"]) = 2
    /\ "and" \in DOMAIN filter_dict["or"][1]
    /\ "or" \in DOMAIN filter_dict["or"][1]["and"][1]
    /\ KeyK \notin DOMAIN row

\* the text of a field for :like: a string's characters, a number's digits,
\* true or false
FieldText(v) ==
    CASE v.jtype = "string" -> v.str
      [] v.jtype = "number" -> IntText(v.num)
      [] v.jtype = "boolean" -> IF v.num = 1 THEN TRUE_ ELSE FALSE_

\* pattern matches the text of v (a JSON null has no text)
LikeMatches(v, pattern) ==
    v.jtype # "null" /\ Like(FieldText(v), pattern.str)

\* v op operand as typed JSON values: values of two types are never equal; two
\* numbers compare as integers, two strings as texts
TypedMatches(v, op, operand) ==
    IF v.jtype # operand.jtype THEN op # EQ /\ (op = NE \/ JsonbCmp(v, operand) \in {0 - 1, 1})
    ELSE IF v.jtype = "number"
    THEN CASE op = EQ -> v.num = operand.num [] op = NE -> v.num # operand.num
           [] op = GT -> v.num > operand.num [] op = GTE -> v.num >= operand.num
           [] op = LT -> v.num < operand.num [] op = LTE -> v.num <= operand.num
    ELSE CASE op = EQ -> v.str = operand.str [] op = NE -> v.str # operand.str
           [] op = GT -> TextCmp(v.str, operand.str) > 0
           [] op = GTE -> TextCmp(v.str, operand.str) >= 0
           [] op = LT -> TextCmp(v.str, operand.str) < 0
           [] op = LTE -> TextCmp(v.str, operand.str) <= 0

\* the comparison a filter asks for, on one value
Compares(v, op, operand) ==
    IF op = LIKE THEN LikeMatches(v, operand) ELSE TypedMatches(v, op, operand)

\* C9: in a scalar filter :like matches the pattern against the text of the
\* field whatever its JSON type, and every other operator compares the field
\* and the operand as typed JSON values, so that (k,:eq,3) never matches the
\* string "3" and (k,:eq,"3") never matches the number 3; the elements of an
\* array are compared in the same way inside :any and :all.
C9_LikeOnTextOthersTyped ==
    /\ /\ http_status = 200
       /\ "op" \in DOMAIN filter_dict
       /\ filter_dict.name = KeyK
       /\ KeyK \in DOMAIN row
       => /\ matched = "TRUE" => Compares(row[KeyK], filter_dict.op, filter_dict.val)
          /\ matched # "TRUE" /\ (filter_dict.op \in {EQ, NE, LIKE}
                                   \/ row[KeyK].jtype = filter_dict.val.jtype)
               => ~Compares(row[KeyK], filter_dict.op, filter_dict.val)
    /\ QuantifierRan(ANY) /\ filter_dict.val.op \in {EQ, NE, LIKE} =>
          (matched = "TRUE" <=>
              \E i \in 1..Len(row[KeyTags].elems) :
                  Compares(row[KeyTags].elems[i], filter_dict.val.op, filter_dict.val.val))
    /\ QuantifierRan(ALL) /\ filter_dict.val.op \in {EQ, NE, LIKE} =>
          (matched = "TRUE" <=>
              \A i \in 1..Len(row[KeyTags].elems) :
                  Compares(row[KeyTags].elems[i], filter_dict.val.op, filter_dict.val.val))

\* (k,:eq,3) ran on a row whose k is the string "3" and did not match
C9_Witness ==
    /\ http_status = 200
    /\ "op" \in DOMAIN filter_dict
    /\ filter_dict.name = KeyK /\ filter_dict.op = EQ /\ filter_dict.val = JsonNumber(3)
    /\ KeyK \in DOMAIN row /\ row[KeyK] = JsonString(<<"3">>)
    /\ matched = "FALSE"

(***************************************************************************)
(* The shape of the filter AST.                                            *)
(***************************************************************************)
\* the grammar alternatives of filter and specific_filter
FilterRules == {"scalar_filter", "compound_filter", "boolean_filter"}

\* a JSON value that is neither an object nor an array
IsJsonScalar(v) ==
    /\ DOMAIN v = DOMAIN JsonNull
    /\ v.jtype \in {"string", "number", "boolean", "null"}

\* Scalar {name, op, val}
IsScalarNode(d) ==
    /\ DOMAIN d = {"name", "op", "val"}
    /\ d.op \in ComparisonOperators \cup {LIKE}
    /\ IsJsonScalar(d.val)

\* Compound {name, op, val}
IsCompoundNode(d) ==
    /\ DOMAIN d = {"name", "op", "val"}
    /\ d.op \in {ANY, ALL}
    /\ IsScalarNode(d.val)

\* a node is exactly one of Scalar, Compound and Boolean, and the operands
\* of a Boolean are a non-empty list of such nodes
RECURSIVE WellFormed(_)
WellFormed(d) ==
    IF DOMAIN d \in {{"and"}, {"or"}}
    THEN LET operands == d[CHOOSE b \in DOMAIN d : TRUE]
         IN  /\ Len(operands) > 0
             /\ \A i \in 1..Len(operands) : WellFormed(operands[i])
    ELSE IsScalarNode(d) # IsCompoundNode(d)

\* the grammar alternative the compiler takes a node for: the kind of the
\* clause it builds for it
CompiledAs(d) ==
    LET kind == get_sqlalchemy_clause(d).kind
    IN  CASE kind \in {"and", "or"} -> "boolean_filter"
          [] kind \in {"exists", "count_eq"} -> "compound_filter"
          [] kind = "compare" -> "scalar_filter"
          [] OTHER -> "none"

\* every filter node of a parse tree is compiled as the alternative that
\* matched it
RECURSIVE ClassifiedAsProduced(_)
ClassifiedAsProduced(node) ==
    /\ node.expr_name \in FilterRules => CompiledAs(Visit(node)) = node.expr_name
    /\ \A k \in 1..Len(node.children) : ClassifiedAsProduced(node.children[k])

\* the helper parsed and visited a filter string into an AST
AstProduced == http_status # 0 /\ exception = "none" /\ filter # <<>>

\* C21: the AST of every accepted filter string is well-formed at every
\* depth (each node is a Scalar with one of the 7 scalar operators and a
\* non-object JSON value, a Compound with :any or :all over a Scalar, or a
\* Boolean with a non-empty list of nodes), and the compiler's shape tests
\* take every node for the grammar alternative that produced it.
C21_AstWellFormedAndClassified ==
    AstProduced =>
        /\ WellFormed(filter_dict)
        /\ ClassifiedAsProduced(parse_filter(filter).tree)

\* an accepted filter with a Compound inside a Boolean inside a Boolean
C21_Witness ==
    /\ AstProduced
    /\ "and" \in DOMAIN filter_dict
    /\ \E i \in 1..Len(filter_dict.and) :
         /\ "or" \in DOMAIN filter_dict.and[i]
         /\ \E j \in 1..Len(filter_dict.and[i].or) :
              IsCompoundNode(filter_dict.and[i].or[j])

(***************************************************************************)
(* Part 5: query.py, the pages of search_metadata_helper.  The query has   *)
(* offset and limit and no ORDER BY: the store returns the rows of each    *)
(* statement in an order of its choice.                                    *)
(***************************************************************************)
VARIABLES
    table,      \* the guids of the metadata table, fixed for the run
    calls       \* the calls made: page, limit, the query's limit and offset, the guids returned

pageVars == <<table, calls>>

MaxCalls == 2
MaxPage == 2
MaxRows == 3

\* limit = min(limit, 2000)
LimitCap == 2000

Guids == {"g1", "g2", "g3", "g4"}
Limits == {1, 2, LimitCap, LimitCap + 1}

\* the orders in which the store can return the rows of a table
Orders(t) ==
    {o \in [1..Cardinality(t) -> t] : \A i, j \in 1..Cardinality(t) : i # j => o[i] # o[j]}

\* rows offset+1 .. offset+limit of an order
Window(order, off, lim) == SubSeq(order, off + 1, Min(off + lim, Len(order)))

PageInit ==
    /\ \E t \in SUBSET Guids : Cardinality(t) \in 1..MaxRows /\ table = t
    /\ calls = <<>>

PageIdle ==
    /\ table = {}
    /\ calls = <<>>

\* search_metadata_helper(page=p, limit=l) with no filter
SearchPage ==
    /\ Len(calls) < MaxCalls
    /\ \E p \in 0..MaxPage, l \in Limits, order \in Orders(table) :
         LET lim == Min(l, LimitCap)
         IN  calls' = Append(calls,
                 [page |-> p, limit |-> l, query_limit |-> lim,
                  query_offset |-> p * lim,
                  returned |-> Window(order, p * lim, lim)])
    /\ UNCHANGED table

\* C10: with limit L and page p the store is queried with limit min(L, 2000)
\* and offset p * min(L, 2000), and no call returns more than 2000 records.
C10_LimitClampedOffsetByPage ==
    \A i \in 1..Len(calls) :
        /\ calls[i].query_limit = Min(calls[i].limit, 2000)
        /\ calls[i].query_offset = calls[i].page * Min(calls[i].limit, 2000)
        /\ Len(calls[i].returned) <= calls[i].query_limit
        /\ Len(calls[i].returned) <= 2000

\* C10 (as claimed): moreover the windows of distinct pages with the same L
\* share no record, and the same page with the same L returns the same
\* records in the same order.
C10_PagesDisjointAndStable ==
    /\ C10_LimitClampedOffsetByPage
    /\ \A i, j \in 1..Len(calls) :
         calls[i].limit = calls[j].limit =>
            IF calls[i].page = calls[j].page
            THEN calls[i].returned = calls[j].returned
            ELSE {calls[i].returned[k] : k \in 1..Len(calls[i].returned)}
                 \cap {calls[j].returned[k] : k \in 1..Len(calls[j].returned)} = {}

(***************************************************************************)
(* Part 6: field extraction and mapping of adapters.py.  Python values are *)
(* tagged records; a str is its sequence of characters and a dict is the   *)
(* sequence of its (key, value) pairs in insertion order.                  *)
(***************************************************************************)
VARIABLES item, expression, mappings, keepOriginalFields, adapterClass, data, ret
mapVars == <<item, expression, mappings, keepOriginalFields, adapterClass, data, ret>>

PyNone == [t |-> "none", v |-> <<>>]
PyStr(cs) == [t |-> "str", v |-> cs]
PyInt(n) == [t |-> "int", v |-> n]
PyBool(b) == [t |-> "bool", v |-> b]
PyList(elems) == [t |-> "list", v |-> elems]
PyDict(pairs) == [t |-> "dict", v |-> pairs]
Pair(key, value) == [key |-> key, value |-> value]

\* key in d
HasKey(d, key) == \E i \in 1..Len(d.v) : d.v[i].key = key
\* d[key]
GetItem(d, key) == d.v[CHOOSE i \in 1..Len(d.v) : d.v[i].key = key].value
\* d.get(key, default)
Get(d, key, default) == IF HasKey(d, key) THEN GetItem(d, key) ELSE default
\* d[key] = value: an existing key keeps its position
SetItem(d, key, value) ==
    IF HasKey(d, key)
    THEN PyDict([i \in 1..Len(d.v) |->
                    IF d.v[i].key = key THEN Pair(key, value) ELSE d.v[i]])
    ELSE PyDict(Append(d.v, Pair(key, value)))
\* dict(pairs), and d.update(pairs)
RECURSIVE Update(_, _)
Update(d, pairs) ==
    IF pairs = <<>> THEN d
    ELSE Update(SetItem(d, Head(pairs).key, Head(pairs).value), Tail(pairs))
Keys(d) == {d.v[i].key : i \in 1..Len(d.v)}

\* the outcome of a call: the exception it raised ("" for none) or its value
Returned(value) == [called |-> TRUE, raised |-> "", value |-> value]
Raised(exc) == [called |-> TRUE, raised |-> exc, value |-> PyNone]
NotReturned == [called |-> FALSE, raised |-> "", value |-> PyNone]

\* jsonpath_ng.parse for paths of fields, [n] and [*]: the steps of the
\* path, one or two for each dot-separated segment
Step(kind, name, index) == [kind |-> kind, name |-> name, index |-> index]
SegmentSteps(seg) ==
    IF \E i \in 1..Len(seg) : seg[i] = "["
    THEN LET i == CHOOSE i \in 1..Len(seg) : seg[i] = "["
             inner == SubSeq(seg, i + 1, Len(seg) - 1)
             sub == IF inner = <<"*">> THEN Step("slice", <<>>, 0)
                    ELSE Step("index", <<>>, DigitsValue(inner, Len(inner)))
         IN  IF i = 1 THEN <<sub>>
             ELSE <<Step("fields", SubSeq(seg, 1, i - 1), 0), sub>>
    ELSE <<Step("fields", seg, 0)>>
RECURSIVE Concat(_)
Concat(seqs) == IF seqs = <<>> THEN <<>> ELSE Head(seqs) \o Concat(Tail(seqs))
\* the parser rejects a path with an empty segment, the empty path included
PathParseRaises(path) == \E i \in 1..Len(Split(path, ".")) : Split(path, ".")[i] = <<>>
PathParse(path) ==
    LET segs == Split(path, ".")
    IN  Concat([i \in 1..Len(segs) |-> SegmentSteps(segs[i])])

\* the matches of one step on one datum: a field of a dict, an element of
\* a list, every element of a list (any other value counts as a list of
\* itself)
StepFind(step, datum) ==
    CASE step.kind = "fields" ->
            IF datum.t = "dict" /\ HasKey(datum, step.name)
            THEN <<GetItem(datum, step.name)>> ELSE <<>>
      [] step.kind = "index" ->
            IF datum.t = "list" /\ Len(datum.v) > step.index
            THEN <<datum.v[step.index + 1]>> ELSE <<>>
      [] step.kind = "slice" ->
            IF datum.t = "list" THEN datum.v ELSE <<datum>>
\* jsonpath_expr.find(datum): the matched values in path-evaluation order
RECURSIVE Find(_, _)
Find(steps, datum) ==
    IF steps = <<>> THEN <<datum>>
    ELSE LET here == StepFind(Head(steps), datum)
         IN  Concat([i \in 1..Len(here) |-> Find(Tail(steps), here[i])])

\* get_json_path_value with the single match left in its list
get_json_path_valueNoUnwrap(expr, datum) ==
    IF expr.t = "none" THEN Returned(PyStr(<<>>))
    ELSE IF PathParseRaises(expr.v) THEN Raised("JsonPathParserError")
    ELSE LET v == Find(PathParse(expr.v), datum)
         IN  IF Len(v) = 0 THEN Returned(PyStr(<<>>))
             ELSE Returned(PyList(v))
get_json_path_value(expr, datum) ==
    IF expr.t = "none" THEN Returned(PyStr(<<>>))
    ELSE IF PathParseRaises(expr.v) THEN Raised("JsonPathParserError")
    ELSE LET v == Find(PathParse(expr.v), datum)
         IN  IF Len(v) = 0 THEN Returned(PyStr(<<>>))
             ELSE IF Len(v) = 1 THEN Returned(v[1])
             ELSE Returned(PyList(v))

\* keys and values of the documents
KeyS == <<"s">>
KeyL == <<"l">>
KeyD == <<"d">>
KeyX == <<"x">>
KeyY == <<"y">>
V1 == PyStr(<<"v", "1">>)
V2 == PyStr(<<"v", "2">>)
\* documents: a scalar (possibly empty) under s, a list under l, a dict
\* under d
PathItems == <<
    PyDict(<<>>),
    PyDict(<<Pair(KeyS, V1)>>),
    PyDict(<<Pair(KeyS, PyStr(<<>>))>>),
    PyDict(<<Pair(KeyL, PyList(<<>>))>>),
    PyDict(<<Pair(KeyL, PyList(<<V1>>))>>),
    PyDict(<<Pair(KeyL, PyList(<<V1, V2>>))>>),
    PyDict(<<Pair(KeyL, PyList(<<V2, V1>>)), Pair(KeyS, V2)>>),
    PyDict(<<Pair(KeyL, PyList(<<PyDict(<<Pair(KeyX, V1)>>),
                                 PyDict(<<Pair(KeyX, V2)>>)>>)),
             Pair(KeyD, PyDict(<<Pair(KeyX, V1)>>))>>),
    PyDict(<<Pair(KeyL, PyList(<<PyDict(<<Pair(KeyX, V1)>>),
                                 PyDict(<<Pair(KeyY, V2)>>)>>))>>),
    PyDict(<<Pair(KeyD, PyDict(<<Pair(KeyX, PyList(<<V1, V2>>))>>))>>),
    PyDict(<<Pair(KeyD, PyDict(<<Pair(KeyX, PyList(<<>>)),
                                 Pair(KeyY, PyStr(<<>>))>>))>>) >>
\* path expressions, None among them
PathExpressions == <<
    PyNone,
    PyStr(<<"s">>),
    PyStr(<<"l">>),
    PyStr(<<"l", "[", "0", "]">>),
    PyStr(<<"l", "[", "1", "]">>),
    PyStr(<<"l", "[", "*", "]">>),
    PyStr(<<"l", "[", "*", "]", ".", "x">>),
    PyStr(<<"l", "[", "0", "]", ".", "x">>),
    PyStr(<<"d", ".", "x">>),
    PyStr(<<"d", ".", "y">>),
    PyStr(<<"d", ".", "x", "[", "*", "]">>) >>

MapIdle ==
    /\ item = PyNone
    /\ expression = PyNone
    /\ mappings = PyNone
    /\ keepOriginalFields = FALSE
    /\ adapterClass = ""
    /\ data = PyNone
    /\ ret = NotReturned

ExtractInit ==
    /\ \E i \in 1..Len(PathItems) : item = PathItems[i]
    /\ \E i \in 1..Len(PathExpressions) : expression = PathExpressions[i]
    /\ mappings = PyNone
    /\ keepOriginalFields = FALSE
    /\ adapterClass = ""
    /\ data = PyNone
    /\ ret = NotReturned

\* a call of get_json_path_value(expression, item)
GetJsonPathValueCall ==
    /\ ~ret.called
    /\ ret' = get_json_path_value(expression, item)
    /\ UNCHANGED <<item, expression, mappings, keepOriginalFields, adapterClass, data>>

\* the matches of the path in the document
Matches == Find(PathParse(expression.v), item)
IsEmptyString(value) == value.t = "str" /\ value.v = <<>>
IsSequenceOf(value, elems) == value.t = "list" /\ value.v = elems

\* C11 (as claimed): get_json_path_value returns the empty string if and
\* only if the path matches nothing, the single matched value if and only if
\* it matches exactly once, and the sequence of the matched values in order
\* if and only if it matches more than once; a null path gives the empty
\* string.
C11_ArityIff ==
    ret.called =>
        IF expression.t = "none" THEN IsEmptyString(ret.value)
        ELSE /\ IsEmptyString(ret.value) <=> Len(Matches) = 0
             /\ IsSequenceOf(ret.value, Matches) <=> Len(Matches) > 1

\* C11: the returned value is decided by the number of matches: the empty
\* string for none, the matched value itself for one, the sequence of the
\* matched values in path-evaluation order for more; a null path gives the
\* empty string.  An empty string or a sequence may also be the single
\* matched value.
C11_ArityByMatchCount ==
    ret.called =>
        /\ ret.raised = ""
        /\ IF expression.t = "none" THEN IsEmptyString(ret.value)
           ELSE CASE Len(Matches) = 0 -> IsEmptyString(ret.value)
                  [] Len(Matches) = 1 -> ret.value = Matches[1]
                  [] OTHER -> IsSequenceOf(ret.value, Matches)

C11_Witness ==
    /\ ret.called
    /\ expression.t = "str"
    /\ Len(Matches) = 1
    /\ IsEmptyString(ret.value)

(***************************************************************************)
(* mapFields and the field filters.                                        *)
(***************************************************************************)
Marker == <<"p", "a", "t", "h", ":">>
KeyPath == <<"p", "a", "t", "h">>
KeyFilters == <<"f", "i", "l", "t", "e", "r", "s">>
StripHtmlName == <<"s", "t", "r", "i", "p", "_", "h", "t", "m", "l">>

\* sub in s, for two strings
Contains(s, sub) ==
    \E i \in 1..(Len(s) - Len(sub) + 1) : SubSeq(s, i, i + Len(sub) - 1) = sub
\* s.split(sub)
RECURSIVE SplitOn(_, _)
SplitOn(s, sub) ==
    IF Contains(s, sub)
    THEN LET i == CHOOSE i \in 1..(Len(s) - Len(sub) + 1) :
                      /\ SubSeq(s, i, i + Len(sub) - 1) = sub
                      /\ \A j \in 1..(i - 1) : SubSeq(s, j, j + Len(sub) - 1) # sub
         IN  <<SubSeq(s, 1, i - 1)>> \o SplitOn(SubSeq(s, i + Len(sub), Len(s)), sub)
    ELSE <<s>>

\* bleach.clean(s, tags=[], strip=True) for text whose "<" open tags: the
\* tags are dropped, the text between them is kept
RECURSIVE StripTags(_)
StripTags(s) ==
    IF s = <<>> THEN <<>>
    ELSE IF Head(s) = "<" /\ \E i \in 1..Len(s) : s[i] = ">"
    THEN LET i == CHOOSE i \in 1..Len(s) :
                      s[i] = ">" /\ \A j \in 1..(i - 1) : s[j] # ">"
         IN  StripTags(SubSeq(s, i + 1, Len(s)))
    ELSE <<Head(s)>> \o StripTags(Tail(s))
\* bleach.clean refuses an argument that is not text
strip_html(s) ==
    IF s.t = "str" THEN Returned(PyStr(StripTags(s.v))) ELSE Raised("TypeError")

\* FieldFilters.execute
execute(name, value) ==
    IF ~(name.t = "str" /\ name.v = StripHtmlName) THEN Returned(value)
    ELSE strip_html(value)

\* for filter in filters: field_value = FieldFilters.execute(filter, field_value)
RECURSIVE ApplyFilters(_, _)
ApplyFilters(names, value) ==
    IF names = <<>> THEN Returned(value)
    ELSE LET r == execute(Head(names), value)
         IN  IF r.raised # "" THEN r ELSE ApplyFilters(Tail(names), r.value)

\* "path:" in value: a substring test on a str, a membership test on a list,
\* a TypeError on a number, a boolean or None
MarkerInRaises(value) == value.t \in {"int", "bool", "none"}
MarkerIn(value) ==
    CASE value.t = "str" -> Contains(value.v, Marker)
      [] value.t = "list" ->
            \E i \in 1..Len(value.v) : value.v[i].t = "str" /\ value.v[i].v = Marker
      [] OTHER -> FALSE

\* the value mapFields gives to one key
FieldValue(value, datum) ==
    IF value.t = "dict"
    THEN LET g == get_json_path_value(Get(value, KeyPath, PyNone), datum)
         IN  IF g.raised # "" THEN g
             ELSE ApplyFilters(Get(value, KeyFilters, PyList(<<>>)).v, g.value)
    ELSE IF MarkerInRaises(value) THEN Raised("TypeError")
    ELSE IF MarkerIn(value)
    THEN IF value.t = "list" THEN Raised("AttributeError")
         ELSE get_json_path_value(PyStr(SplitOn(value.v, Marker)[2]), datum)
    ELSE Returned(value)

\* mapFields: the loop over mappings.items(), and the call
RECURSIVE MapFieldsLoop(_, _, _)
MapFieldsLoop(datum, pairs, acc) ==
    IF pairs = <<>> THEN Returned(acc)
    ELSE LET r == FieldValue(Head(pairs).value, datum)
         IN  IF r.raised # "" THEN r
             ELSE MapFieldsLoop(datum, Tail(pairs),
                                SetItem(acc, Head(pairs).key, r.value))
mapFields(datum, mapping) == MapFieldsLoop(datum, mapping.v, PyDict(<<>>))

KeyA == <<"a">>
KeyB == <<"b">>
Html1 == PyStr(<<"<", "b", ">", "v", "1", "<", "/", "b", ">">>)
PathS == PyStr(<<"s">>)
PathLAll == PyStr(<<"l", "[", "*", "]">>)
\* items to map: the documents above and two with markup in their text
MapItems == PathItems \o <<
    PyDict(<<Pair(KeyS, Html1)>>),
    PyDict(<<Pair(KeyS, Html1), Pair(KeyL, PyList(<<Html1, V2>>))>>) >>
\* mapping specs: structured (with and without path and filters), strings
\* with and without the marker, and literals of every JSON type
MappingSpecs == <<
    PyDict(<<Pair(KeyA, PyDict(<<Pair(KeyPath, PathS)>>))>>),
    PyDict(<<Pair(KeyA, PyDict(<<Pair(KeyPath, PathS),
                                 Pair(KeyFilters, PyList(<<PyStr(StripHtmlName)>>))>>))>>),
    PyDict(<<Pair(KeyA, PyDict(<<Pair(KeyPath, PathS),
                                 Pair(KeyFilters, PyList(<<PyStr(<<"t", "r", "i", "m">>)>>))>>))>>),
    PyDict(<<Pair(KeyA, PyDict(<<Pair(KeyPath, PathS),
                                 Pair(KeyFilters, PyList(<<PyStr(<<"t", "r", "i", "m">>),
                                                           PyStr(StripHtmlName)>>))>>)),
             Pair(KeyB, V2)>>),
    PyDict(<<Pair(KeyA, PyDict(<<Pair(KeyPath, PathLAll),
                                 Pair(KeyFilters, PyList(<<PyStr(StripHtmlName)>>))>>))>>),
    PyDict(<<Pair(KeyA, PyDict(<<Pair(KeyFilters, PyList(<<PyStr(StripHtmlName)>>))>>))>>),
    PyDict(<<Pair(KeyA, PyStr(Marker \o <<"s">>))>>),
    PyDict(<<Pair(KeyA, PyStr(Marker \o <<"l", "[", "*", "]">>)), Pair(KeyB, V1)>>),
    PyDict(<<Pair(KeyA, PyStr(<<"x">> \o Marker \o <<"s">>))>>),
    PyDict(<<Pair(KeyA, V1)>>),
    PyDict(<<Pair(KeyA, PyStr(<<>>)), Pair(KeyB, PyList(<<V1>>))>>),
    PyDict(<<Pair(KeyA, PyList(<<>>))>>),
    PyDict(<<Pair(KeyA, PyInt(0))>>),
    PyDict(<<Pair(KeyA, PyBool(TRUE))>>),
    PyDict(<<Pair(KeyB, V1), Pair(KeyA, PyNone)>>) >>

MapFieldsInit ==
    /\ \E i \in 1..Len(MapItems) : item = MapItems[i]
    /\ \E i \in 1..Len(MappingSpecs) : mappings = MappingSpecs[i]
    /\ expression = PyNone
    /\ keepOriginalFields = FALSE
    /\ adapterClass = ""
    /\ data = PyNone
    /\ ret = NotReturned

\* a call of RemoteMetadataAdapter.mapFields(item, mappings)
MapFieldsCall ==
    /\ ~ret.called
    /\ ret' = mapFields(item, mappings)
    /\ UNCHANGED <<item, expression, mappings, keepOriginalFields, adapterClass, data>>

\* the value the mapping contract gives to a spec value: the extraction of
\* the path of a structured spec with its filters applied in order, the
\* extraction of the text after the marker, or the literal
RECURSIVE Filtered(_, _)
Filtered(names, value) ==
    IF names = <<>> THEN value
    ELSE Filtered(Tail(names),
                  IF Head(names).v = StripHtmlName /\ value.t = "str"
                  THEN PyStr(StripTags(value.v)) ELSE value)
Extraction(path, datum) == get_json_path_value(path, datum).value
Mapped(value, datum) ==
    CASE value.t = "dict" ->
            Filtered(Get(value, KeyFilters, PyList(<<>>)).v,
                     Extraction(Get(value, KeyPath, PyNone), datum))
      [] value.t = "str" /\ Contains(value.v, Marker) ->
            LET i == CHOOSE i \in 1..Len(value.v) :
                         /\ SubSeq(value.v, i, i + Len(Marker) - 1) = Marker
                         /\ \A j \in 1..(i - 1) :
                               SubSeq(value.v, j, j + Len(Marker) - 1) # Marker
            IN  Extraction(PyStr(SubSeq(value.v, i + Len(Marker), Len(value.v))), datum)
      [] OTHER -> value

\* C12 (as claimed): mapFields returns one entry per key of the mapping
\* spec, holding the filtered extraction of a structured spec, the
\* extraction of the text after the marker path:, or the literal value of
\* any other spec value whatever its JSON type.
C12_OneEntryPerMappingKey ==
    ret.called =>
        /\ ret.raised = ""
        /\ ret.value.t = "dict"
        /\ Len(ret.value.v) = Len(mappings.v)
        /\ \A i \in 1..Len(mappings.v) :
              /\ ret.value.v[i].key = mappings.v[i].key
              /\ ret.value.v[i].value.t = Mapped(mappings.v[i].value, item).t
              /\ ret.value.v[i].value = Mapped(mappings.v[i].value, item)

\* the part of C12 that holds: a call that returns has returned exactly the
\* entries of the contract
C12_ReturnedEntriesAsMapped ==
    (ret.called /\ ret.raised = "") =>
        /\ ret.value.t = "dict"
        /\ Len(ret.value.v) = Len(mappings.v)
        /\ \A i \in 1..Len(mappings.v) :
              /\ ret.value.v[i].key = mappings.v[i].key
              /\ ret.value.v[i].value.t = Mapped(mappings.v[i].value, item).t
              /\ ret.value.v[i].value = Mapped(mappings.v[i].value, item)

\* a literal that is a number makes the call raise
C12_NumberLiteralRaises ==
    /\ ret.called
    /\ \E i \in 1..Len(mappings.v) : mappings.v[i].value.t = "int"
    /\ ret.raised = "TypeError"

(***************************************************************************)
(* flatten, and the normalization of the three adapters.                   *)
(***************************************************************************)
Separator == <<".">>
\* the truth value of parent_key, which is False or a str
Truthy(value) == IF value.t = "bool" THEN value.v ELSE value.v # <<>>

\* flatten(dictionary, parent_key, separator): the (key, value) list of the
\* loop, and dict(items); the recursive call is given False as parent_key
RECURSIVE FlattenItems(_, _)
FlattenItems(pairs, parent_key) ==
    IF pairs = <<>> THEN <<>>
    ELSE LET key == Head(pairs).key
             value == Head(pairs).value
             new_key == IF Truthy(parent_key)
                        THEN parent_key.v \o Separator \o key ELSE key
         IN  (IF value.t = "dict"
              THEN FlattenItems(value.v, PyBool(FALSE))
              ELSE <<Pair(new_key, value)>>)
             \o FlattenItems(Tail(pairs), parent_key)
flatten(dictionary, parent_key) ==
    Update(PyDict(<<>>), FlattenItems(dictionary.v, parent_key))

KeyInvestigators == <<"i", "n", "v", "e", "s", "t", "i", "g", "a", "t", "o", "r", "s">>
KeyLocation == <<"l", "o", "c", "a", "t", "i", "o", "n">>
KeyLocationList == <<"L", "o", "c", "a", "t", "i", "o", "n">>
KeyLocationFacility == <<"L", "o", "c", "a", "t", "i", "o", "n", "F", "a", "c", "i", "l", "i", "t", "y">>
KeyLocationCity == <<"L", "o", "c", "a", "t", "i", "o", "n", "C", "i", "t", "y">>
KeyLocationState == <<"L", "o", "c", "a", "t", "i", "o", "n", "S", "t", "a", "t", "e">>
KeyNCTId == <<"N", "C", "T", "I", "d">>
KeyStudy == <<"S", "t", "u", "d", "y">>
KeyDisplayId == <<"d", "i", "s", "p", "l", "a", "y", "_", "i", "d">>
KeyIdentifier == <<"i", "d", "e", "n", "t", "i", "f", "i", "e", "r">>
KeyDc == <<"d", "c", ":">>
KeyDcIdentifier == <<"d", "c", ":", "i", "d", "e", "n", "t", "i", "f", "i", "e", "r">>
KeyResults == <<"r", "e", "s", "u", "l", "t", "s">>
KeyGuidType == <<"_", "g", "u", "i", "d", "_", "t", "y", "p", "e">>
KeyGen3Discovery == <<"g", "e", "n", "3", "_", "d", "i", "s", "c", "o", "v", "e", "r", "y">>
OaiPath == <<<<"O", "A", "I", "-", "P", "M", "H">>, <<"G", "e", "t", "R", "e", "c", "o", "r", "d">>, <<"r", "e", "c", "o", "r", "d">>, <<"m", "e", "t", "a", "d", "a", "t", "a">>, <<"o", "a", "i", "_", "d", "c", ":", "d", "c">>>>

\* sep.join(strs)
RECURSIVE Join(_, _)
Join(sep, strs) ==
    IF strs = <<>> THEN <<>>
    ELSE IF Len(strs) = 1 THEN strs[1].v
    ELSE strs[1].v \o sep \o Join(sep, Tail(strs))
\* s.replace(old, "")
Remove(s, old) == Concat(SplitOn(s, old))
\* ISCPSRDublin.buildIdentifier
buildIdentifier(id) == Remove(Remove(id, <<"h", "t", "t", "p", ":", "/", "/", "d", "o", "i", ".", "o", "r", "g", "/">>), KeyDc)

\* the outcome of addGen3ExpectedFields: the exception raised or the dict
\* returned, and the item as the call leaves it (results is the item itself
\* unless it was rebound to the mapped fields)
Expected(exc, value, datum) == [raised |-> exc, value |-> value, item |-> datum]

\* the head of each addGen3ExpectedFields: results = item, then the mapped
\* fields m laid over the item or taken alone
Overlaid(m, datum, keep) ==
    IF m.raised # ""
    THEN [raised |-> m.raised, results |-> datum, aliased |-> TRUE]
    ELSE IF keep
    THEN [raised |-> "", results |-> Update(datum, m.value.v), aliased |-> TRUE]
    ELSE [raised |-> "", results |-> m.value, aliased |-> FALSE]
Overlay(datum, mapping, keep) ==
    IF mapping.t = "none" THEN [raised |-> "", results |-> datum, aliased |-> TRUE]
    ELSE Overlaid(mapFields(datum, mapping), datum, keep)
\* the item after the head: results itself where results is the item
After(o, datum) == IF o.aliased THEN o.results ELSE datum

\* ISCPSRDublin.addGen3ExpectedFields: its tail on the overlay o, and the call
ICPSRInvestigators(o, datum) ==
    IF o.raised # "" THEN Expected(o.raised, PyNone, datum)
    ELSE IF ~HasKey(o.results, KeyInvestigators)
    THEN Expected("KeyError", PyNone, After(o, datum))
    ELSE IF GetItem(o.results, KeyInvestigators).t = "list"
    THEN Expected("", SetItem(o.results, KeyInvestigators,
                        PyStr(Join(<<",">>, GetItem(o.results, KeyInvestigators).v))),
                  IF o.aliased
                  THEN SetItem(o.results, KeyInvestigators,
                          PyStr(Join(<<",">>, GetItem(o.results, KeyInvestigators).v)))
                  ELSE datum)
    ELSE Expected("", o.results, After(o, datum))
ICPSRaddGen3ExpectedFields(datum, mapping, keep) ==
    ICPSRInvestigators(Overlay(datum, mapping, keep), datum)

\* the location text of a flattened study
LocationOf(datum) ==
    IF HasKey(datum, KeyLocationList) /\ Len(GetItem(datum, KeyLocationList).v) > 0
    THEN PyStr(Get(GetItem(datum, KeyLocationList).v[1], KeyLocationFacility, PyStr(<<>>)).v
               \o <<",", " ">>
               \o Get(GetItem(datum, KeyLocationList).v[1], KeyLocationCity, PyStr(<<>>)).v
               \o <<",", " ">>
               \o Get(GetItem(datum, KeyLocationList).v[1], KeyLocationState, PyStr(<<>>)).v)
    ELSE PyStr(<<>>)
\* ClinicalTrials.addGen3ExpectedFields: its tail on the overlay o, and the
\* call
CTLocation(o, datum) ==
    IF o.raised # "" THEN Expected(o.raised, PyNone, datum)
    ELSE Expected("", SetItem(o.results, KeyLocation, LocationOf(After(o, datum))),
                  IF o.aliased
                  THEN SetItem(o.results, KeyLocation, LocationOf(After(o, datum)))
                  ELSE datum)
CTaddGen3ExpectedFields(datum, mapping, keep) ==
    CTLocation(Overlay(datum, mapping, keep), datum)

\* PDAPS.addGen3ExpectedFields: its tail on the overlay o (a list has no
\* join), and the call
PDAPSInvestigators(o, datum) ==
    IF o.raised # "" THEN Expected(o.raised, PyNone, datum)
    ELSE IF ~HasKey(o.results, KeyInvestigators)
    THEN Expected("KeyError", PyNone, After(o, datum))
    ELSE IF GetItem(o.results, KeyInvestigators).t = "list"
    THEN Expected("AttributeError", PyNone, After(o, datum))
    ELSE Expected("", o.results, After(o, datum))
PDAPSaddGen3ExpectedFields(datum, mapping, keep) ==
    PDAPSInvestigators(Overlay(datum, mapping, keep), datum)

\* the record stored under an identifier
Discovery(normalized_item) ==
    PyDict(<<Pair(KeyGuidType, PyStr(<<"d", "i", "s", "c", "o", "v", "e", "r", "y", "_", "m", "e", "t", "a", "d", "a", "t", "a">>)),
             Pair(KeyGen3Discovery, normalized_item)>>)

\* record["OAI-PMH"]["GetRecord"]["record"]["metadata"]["oai_dc:dc"]
RECURSIVE Descend(_, _)
Descend(datum, keys) ==
    IF keys = <<>> THEN datum ELSE Descend(GetItem(datum, Head(keys)), Tail(keys))
\* the item ISCPSRDublin builds from the dc: keys of a record
DublinField(acc, key, value) ==
    IF ~Contains(key, KeyDc) THEN acc
    ELSE IF Contains(key, KeyDcIdentifier)
    THEN SetItem(acc, KeyIdentifier, PyStr(buildIdentifier(value.v[2].v)))
    ELSE SetItem(acc, Remove(key, KeyDc), value)
RECURSIVE DublinItem(_, _)
DublinItem(pairs, acc) ==
    IF pairs = <<>> THEN acc
    ELSE DublinItem(Tail(pairs), DublinField(acc, Head(pairs).key, Head(pairs).value))

\* the loops of the three normalizeToGen3MDSFields over data["results"]: n
\* is what addGen3ExpectedFields made of the first of the records
RECURSIVE ICPSRNormalizeLoop(_, _, _, _)
ICPSRStore(n, records, mapping, keep, acc) ==
    IF n.raised # "" THEN Raised(n.raised)
    ELSE IF ~HasKey(n.item, KeyIdentifier) THEN Raised("KeyError")
    ELSE ICPSRNormalizeLoop(Tail(records), mapping, keep,
            SetItem(acc, GetItem(n.item, KeyIdentifier).v, Discovery(n.value)))
ICPSRNormalizeLoop(records, mapping, keep, acc) ==
    IF records = <<>> THEN Returned(acc)
    ELSE ICPSRStore(ICPSRaddGen3ExpectedFields(
                        DublinItem(Descend(Head(records), OaiPath).v, PyDict(<<>>)),
                        mapping, keep),
                    records, mapping, keep, acc)

RECURSIVE CTNormalizeLoop(_, _, _, _)
CTStore(n, records, mapping, keep, acc) ==
    IF n.raised # "" THEN Raised(n.raised)
    ELSE IF ~HasKey(n.item, KeyNCTId) THEN Raised("KeyError")
    ELSE CTNormalizeLoop(Tail(records), mapping, keep,
            SetItem(acc, GetItem(n.item, KeyNCTId).v, Discovery(n.value)))
CTNormalizeLoop(records, mapping, keep, acc) ==
    IF records = <<>> THEN Returned(acc)
    ELSE CTStore(CTaddGen3ExpectedFields(
                     flatten(GetItem(Head(records), KeyStudy), PyBool(FALSE)),
                     mapping, keep),
                 records, mapping, keep, acc)

RECURSIVE PDAPSNormalizeLoop(_, _, _, _)
PDAPSStore(n, records, mapping, keep, acc) ==
    IF n.raised # "" THEN Raised(n.raised)
    ELSE IF ~HasKey(n.item, KeyDisplayId)
    THEN PDAPSNormalizeLoop(Tail(records), mapping, keep, acc)
    ELSE PDAPSNormalizeLoop(Tail(records), mapping, keep,
            SetItem(acc, GetItem(n.item, KeyDisplayId).v, Discovery(n.value)))
PDAPSNormalizeLoop(records, mapping, keep, acc) ==
    IF records = <<>> THEN Returned(acc)
    ELSE PDAPSStore(PDAPSaddGen3ExpectedFields(Head(records), mapping, keep),
                    records, mapping, keep, acc)

\* normalizeToGen3MDSFields of the adapter class, without perItemValues
normalizeToGen3MDSFields(cls, batchData, mapping, keep) ==
    CASE cls = "ISCPSRDublin" ->
            ICPSRNormalizeLoop(GetItem(batchData, KeyResults).v, mapping, keep, PyDict(<<>>))
      [] cls = "ClinicalTrials" ->
            CTNormalizeLoop(GetItem(batchData, KeyResults).v, mapping, keep, PyDict(<<>>))
      [] cls = "PDAPS" ->
            PDAPSNormalizeLoop(GetItem(batchData, KeyResults).v, mapping, keep, PyDict(<<>>))

\* raw items of the three services
KeyTitle == <<"t", "i", "t", "l", "e">>
RECURSIVE Wrap(_, _)
Wrap(keys, value) ==
    IF keys = <<>> THEN value ELSE PyDict(<<Pair(Head(keys), Wrap(Tail(keys), value))>>)
P1 == PyStr(<<"p", "1">>)
P2 == PyStr(<<"p", "2">>)
DublinRecords == <<
    Wrap(OaiPath, PyDict(<<Pair(<<"x", "m", "l", "n", "s">>, V1),
                           Pair(KeyDcIdentifier, PyList(<<V1, PyStr(<<"h", "t", "t", "p", ":", "/", "/", "d", "o", "i", ".", "o", "r", "g", "/", "d", "1">>)>>)),
                           Pair(<<"d", "c", ":", "t", "i", "t", "l", "e">>, V1),
                           Pair(<<"d", "c", ":", "i", "n", "v", "e", "s", "t", "i", "g", "a", "t", "o", "r", "s">>, PyList(<<P1, P2>>))>>)),
    Wrap(OaiPath, PyDict(<<Pair(KeyDcIdentifier, PyList(<<V2, PyStr(<<"d", "2">>)>>)),
                           Pair(<<"d", "c", ":", "t", "i", "t", "l", "e">>, V2)>>)),
    Wrap(OaiPath, PyDict(<<Pair(<<"d", "c", ":", "t", "i", "t", "l", "e">>, V1),
                           Pair(<<"d", "c", ":", "i", "n", "v", "e", "s", "t", "i", "g", "a", "t", "o", "r", "s">>, P1)>>)) >>
Studies == <<
    PyDict(<<Pair(KeyStudy, PyDict(<<Pair(<<"I", "d", "e", "n", "t">>, PyDict(<<Pair(KeyNCTId, PyStr(<<"n", "1">>)),
                                                            Pair(KeyTitle, V1)>>))>>))>>),
    PyDict(<<Pair(KeyStudy, PyDict(<<Pair(<<"I", "d", "e", "n", "t">>, PyDict(<<Pair(KeyNCTId, PyStr(<<"n", "2">>))>>)),
                                     Pair(<<"C", "o", "n", "t", "a", "c", "t", "s">>, PyDict(<<Pair(KeyLocationList,
                                         PyList(<<PyDict(<<Pair(KeyLocationCity, PyStr(<<"c">>))>>)>>))>>))>>))>>),
    PyDict(<<Pair(KeyStudy, PyDict(<<Pair(<<"I", "d", "e", "n", "t">>, PyDict(<<Pair(KeyTitle, V1)>>)),
                                     Pair(KeyInvestigators, P1)>>))>>) >>
PDAPSItems == <<
    PyDict(<<Pair(KeyDisplayId, PyStr(<<"d", "1">>)), Pair(KeyTitle, V1),
             Pair(KeyInvestigators, P1)>>),
    PyDict(<<Pair(KeyDisplayId, PyStr(<<"d", "2">>)), Pair(KeyTitle, V2)>>),
    PyDict(<<Pair(KeyTitle, V1), Pair(KeyInvestigators, P2)>>) >>
RawItems(cls) ==
    CASE cls = "ISCPSRDublin" -> DublinRecords
      [] cls = "ClinicalTrials" -> Studies
      [] cls = "PDAPS" -> PDAPSItems
\* the batches: which raw items of the class, in which order; the third
\* item lacks its identifying key
BatchShapes == << <<>>, <<1>>, <<2>>, <<3>>, <<1, 2>>, <<1, 3>>, <<3, 1>>, <<2, 1, 3>> >>
BatchData(cls, shape) ==
    PyDict(<<Pair(KeyResults, PyList([i \in 1..Len(shape) |-> RawItems(cls)[shape[i]]]))>>)
\* mapping specs of a commons: none, or fields by path and by literal
FieldMappings == <<
    PyNone,
    PyDict(<<Pair(KeyTitle, PyStr(Marker \o KeyTitle))>>),
    PyDict(<<Pair(KeyInvestigators, V1), Pair(KeyTitle, PyStr(Marker \o KeyTitle))>>),
    PyDict(<<Pair(KeyLocation, V2), Pair(KeyInvestigators, V1)>>),
    PyDict(<<Pair(KeyInvestigators, PyList(<<P1, P2>>))>>) >>
AdapterClasses == {"ISCPSRDublin", "ClinicalTrials", "PDAPS"}

NormalizeInit ==
    /\ adapterClass \in AdapterClasses
    /\ \E i \in 1..Len(BatchShapes) : data = BatchData(adapterClass, BatchShapes[i])
    /\ \E i \in 1..Len(FieldMappings) : mappings = FieldMappings[i]
    /\ keepOriginalFields \in BOOLEAN
    /\ item = PyNone
    /\ expression = PyNone
    /\ ret = NotReturned

\* a call of normalizeToGen3MDSFields(data, mappings=..., keepOriginalFields=...)
NormalizeCall ==
    /\ ~ret.called
    /\ ret' = normalizeToGen3MDSFields(adapterClass, data, mappings, keepOriginalFields)
    /\ UNCHANGED <<item, expression, mappings, keepOriginalFields, adapterClass, data>>

\* the identifying key of a class's items, and the original fields of a raw
\* item as the class presents them to the mapping
IdKey(cls) ==
    CASE cls = "ISCPSRDublin" -> KeyIdentifier
      [] cls = "ClinicalTrials" -> KeyNCTId
      [] cls = "PDAPS" -> KeyDisplayId
Original(cls, raw) ==
    CASE cls = "ISCPSRDublin" -> DublinItem(Descend(raw, OaiPath).v, PyDict(<<>>))
      [] cls = "ClinicalTrials" -> flatten(GetItem(raw, KeyStudy), PyBool(FALSE))
      [] cls = "PDAPS" -> raw
BatchItems == GetItem(data, KeyResults).v
Originals == [i \in 1..Len(BatchItems) |-> Original(adapterClass, BatchItems[i])]
Normalized == ret.called /\ adapterClass \in AdapterClasses
\* the gen3_discovery of the record stored for an original item
RecordOf(orig) ==
    GetItem(GetItem(ret.value, GetItem(orig, IdKey(adapterClass)).v), KeyGen3Discovery)

\* C13 (as claimed): with a mapping spec and keepOriginalFields=false the
\* normalization yields records whose gen3_discovery has exactly the keys of
\* the mapping spec.
C13_OnlyMappedKeys ==
    (Normalized /\ mappings.t = "dict" /\ ~keepOriginalFields
        /\ \A i \in 1..Len(Originals) : HasKey(Originals[i], IdKey(adapterClass))) =>
        /\ ret.raised = ""
        /\ \A i \in 1..Len(Originals) :
              Keys(RecordOf(Originals[i])) = Keys(mappings)

\* a ClinicalTrials record of a mapping without location has a location
C13_LocationAdded ==
    /\ Normalized /\ mappings.t = "dict" /\ ~keepOriginalFields
    /\ ret.raised = ""
    /\ KeyLocation \notin Keys(mappings)
    /\ \E i \in 1..Len(ret.value.v) :
          HasKey(GetItem(ret.value.v[i].value, KeyGen3Discovery), KeyLocation)

\* the value mapFields gives to a key of the mapping spec for an item
MappedValue(orig, key) == GetItem(mapFields(orig, mappings).value, key)

\* C14 (as claimed): with a mapping spec and keepOriginalFields=true the
\* records keep every original field, and every key of the mapping spec,
\* location included, holds its mapped value.
C14_MappedWinsOverOriginal ==
    (Normalized /\ mappings.t = "dict" /\ keepOriginalFields /\ ret.raised = "") =>
        \A i \in 1..Len(Originals) :
            HasKey(Originals[i], IdKey(adapterClass)) =>
                /\ Keys(Originals[i]) \subseteq Keys(RecordOf(Originals[i]))
                /\ \A key \in Keys(mappings) :
                      /\ GetItem(RecordOf(Originals[i]), key).t = MappedValue(Originals[i], key).t
                      /\ GetItem(RecordOf(Originals[i]), key) = MappedValue(Originals[i], key)

\* the original fields are kept
C14_OriginalFieldsKept ==
    (Normalized /\ keepOriginalFields /\ ret.raised = "") =>
        \A i \in 1..Len(Originals) :
            HasKey(Originals[i], IdKey(adapterClass)) =>
                Keys(Originals[i]) \subseteq Keys(RecordOf(Originals[i]))

\* whether the field mapping of an item succeeds
FieldsAdded(orig) ==
    (CASE adapterClass = "ISCPSRDublin" ->
             ICPSRaddGen3ExpectedFields(orig, mappings, keepOriginalFields)
       [] adapterClass = "ClinicalTrials" ->
             CTaddGen3ExpectedFields(orig, mappings, keepOriginalFields)
       [] adapterClass = "PDAPS" ->
             PDAPSaddGen3ExpectedFields(orig, mappings, keepOriginalFields)).raised = ""

\* C15 (as claimed): where the field mapping of every item succeeds, items
\* that lack their identifying key are skipped: the call returns and its
\* result holds exactly the records of the items that have the key.
C15_MissingIdSkipped ==
    (Normalized /\ \A i \in 1..Len(Originals) : FieldsAdded(Originals[i])) =>
        /\ ret.raised = ""
        /\ Keys(ret.value) =
              {GetItem(Originals[i], IdKey(adapterClass)).v :
                  i \in {j \in 1..Len(Originals) :
                            HasKey(Originals[j], IdKey(adapterClass))}}

\* PDAPS does skip them
C15_PDAPSSkips ==
    (Normalized /\ adapterClass = "PDAPS" /\ ret.raised = "") =>
        Keys(ret.value) =
            {GetItem(Originals[i], KeyDisplayId).v :
                i \in {j \in 1..Len(Originals) : HasKey(Originals[j], KeyDisplayId)}}

\* nested dictionaries to flatten: under the keys a and b a leaf or a
\* dictionary of leaves, the one under a also one level deeper
Subtrees == <<
    V1,
    V2,
    PyDict(<<Pair(KeyX, V1)>>),
    PyDict(<<Pair(KeyX, V2)>>),
    PyDict(<<Pair(KeyY, V1)>>),
    PyDict(<<Pair(KeyX, V1), Pair(KeyY, V2)>>) >>
NestedItem(i, j, deep) ==
    PyDict(<<Pair(KeyA, IF deep THEN PyDict(<<Pair(KeyD, Subtrees[i])>>) ELSE Subtrees[i]),
             Pair(KeyB, Subtrees[j])>>)

FlattenInit ==
    /\ \E i, j \in 1..Len(Subtrees) : \E deep \in BOOLEAN : item = NestedItem(i, j, deep)
    /\ expression = PyNone
    /\ mappings = PyNone
    /\ keepOriginalFields = FALSE
    /\ adapterClass = ""
    /\ data = PyNone
    /\ ret = NotReturned

\* a call of flatten(item)
FlattenCall ==
    /\ ~ret.called
    /\ ret' = Returned(flatten(item, PyBool(FALSE)))
    /\ UNCHANGED <<item, expression, mappings, keepOriginalFields, adapterClass, data>>

\* the leaves of a nested dictionary, each under the dot-joined path of the
\* keys that lead to it
RECURSIVE LeafPaths(_, _)
LeafPaths(pairs, prefix) ==
    IF pairs = <<>> THEN {}
    ELSE (IF Head(pairs).value.t = "dict"
          THEN LeafPaths(Head(pairs).value.v, prefix \o Head(pairs).key \o Separator)
          ELSE {Pair(prefix \o Head(pairs).key, Head(pairs).value)})
         \cup LeafPaths(Tail(pairs), prefix)

\* C20 (as claimed): flatten returns one entry per leaf value, under the
\* dot-joined path of the keys from the root to the leaf, so that no leaf
\* value is lost.
C20_DotJoinedKeysNoLeafLost ==
    ret.called =>
        {ret.value.v[i] : i \in 1..Len(ret.value.v)} = LeafPaths(item.v, <<>>)

\* as many entries as leaves (the part of C20 that does not depend on how the
\* keys are written)
C20_NoLeafLost ==
    ret.called => Len(ret.value.v) = Cardinality(LeafPaths(item.v, <<>>))

\* the entries are the leaves under their own last key, a later leaf
\* replacing an earlier one of the same key
C20_LastKeyOnly ==
    ret.called =>
        \A i \in 1..Len(ret.value.v) :
            \E leaf \in LeafPaths(item.v, <<>>) :
                /\ leaf.value = ret.value.v[i].value
                /\ ~Contains(ret.value.v[i].key, Separator)
                /\ Len(leaf.key) >= Len(ret.value.v[i].key)
                /\ SubSeq(leaf.key, Len(leaf.key) - Len(ret.value.v[i].key) + 1, Len(leaf.key))
                      = ret.value.v[i].key

(***************************************************************************)
(* Part 7: the population pipeline of populate.py (main and                *)
(* populate_metadata).  A source's results are a sequence of entries, the  *)
(* guid of an entry being its position.                                    *)
(***************************************************************************)
VARIABLES useAggMds, gen3_commons, adapter_commons, mainPhase, sourceIndex,
          fetches, updates
mainVars == <<useAggMds, gen3_commons, adapter_commons, mainPhase, sourceIndex,
              fetches, updates>>

MaxEntries == 2
\* get_metadata takes at most six positional arguments, main passes eight
GetMetadataMaxArgs == 6
MainCallArgs == 8

\* a configured commons
Common(name, select_field) == [name |-> name, select_field |-> select_field]
\* entries of a source's results: with the study data field and the selected
\* value, with the field and another value, without the field, or with the
\* field and the selected value but without tags
EntryKinds == {"selected", "other", "nofield", "notags"}
ResultSet == UNION {[1..n -> EntryKinds] : n \in 0..MaxEntries}

\* filter_entries: the guids of the entries that have the study data field
\* and the selected value in it
RECURSIVE filter_entries(_, _)
filter_entries(fetched, i) ==
    IF i > Len(fetched) THEN <<>>
    ELSE (IF fetched[i] \in {"selected", "notags"} THEN <<i>> ELSE <<>>)
         \o filter_entries(fetched, i + 1)

\* populate_metadata up to its call of datastore.update_metadata: the
\* exception raised by the loop over mds_arr ("" for none), and the
\* arguments mds_arr and keys of the call
populate_metadata(common, fetched) ==
    LET mds_arr == IF common.select_field THEN filter_entries(fetched, 1)
                   ELSE Range(1, Len(fetched))
    IN  [returned |-> Len(fetched) = 0,
         raised |-> IF \E i \in 1..Len(mds_arr) : fetched[mds_arr[i]] \in {"nofield", "notags"}
                    THEN "KeyError" ELSE "",
         mds_arr |-> mds_arr,
         keys |-> Range(1, Len(fetched))]

Fetched(name, outcome, n) == [name |-> name, outcome |-> outcome, n |-> n]
UpdateCall(name, mds_arr, keys, after) ==
    [name |-> name, mds_arr |-> mds_arr, keys |-> keys, after |-> after]

MainInit ==
    /\ useAggMds \in BOOLEAN
    /\ gen3_commons \in
          {<<>>, <<Common("g1", FALSE)>>, <<Common("g1", TRUE)>>,
           <<Common("g1", FALSE), Common("g2", TRUE)>>,
           <<Common("g1", TRUE), Common("g2", FALSE)>>}
    /\ adapter_commons \in {<<>>, <<Common("a1", FALSE)>>,
                            <<Common("a1", FALSE), Common("a2", TRUE)>>}
    /\ mainPhase = "start"
    /\ sourceIndex = 1
    /\ fetches = <<>>
    /\ updates = <<>>

MainIdle ==
    /\ useAggMds = FALSE
    /\ gen3_commons = <<>>
    /\ adapter_commons = <<>>
    /\ mainPhase = "start"
    /\ sourceIndex = 1
    /\ fetches = <<>>
    /\ updates = <<>>

\* the loop that main is in at source i of the given loop
NextPhase(loop, i) ==
    CASE loop = "gen3" /\ i <= Len(gen3_commons) -> "gen3"
      [] loop = "gen3" /\ adapter_commons # <<>> -> "adapters"
      [] loop = "adapters" /\ i <= Len(adapter_commons) -> "adapters"
      [] OTHER -> "info"
NextIndex(loop, i) == IF NextPhase(loop, i) = loop THEN i ELSE 1

\* main up to its first loop: exit(1) when the aggregate MDS is disabled,
\* else datastore.init and datastore.drop_all
MainStart ==
    /\ mainPhase = "start"
    /\ mainPhase' = IF ~useAggMds THEN "exited" ELSE NextPhase("gen3", 1)
    /\ UNCHANGED <<useAggMds, gen3_commons, adapter_commons, sourceIndex, fetches, updates>>

\* the fetch of a source raises: nothing catches it, main ends
SourceRaisedThenUpdates(name) ==
    /\ mainPhase' = "raised"
    /\ fetches' = Append(fetches, Fetched(name, "failed", 0))
    /\ updates' = Append(updates, UpdateCall(name, <<>>, <<>>, Len(fetches) + 1))
    /\ UNCHANGED sourceIndex
SourceRaised(name) ==
    /\ mainPhase' = "raised"
    /\ fetches' = Append(fetches, Fetched(name, "failed", 0))
    /\ UNCHANGED <<sourceIndex, updates>>

\* the fetch of a source returned: populate_metadata when there are results,
\* then the next source
SourceReturned(common, fetched) ==
    /\ fetches' = Append(fetches, Fetched(common.name, "ok", Len(fetched)))
    /\ IF Len(fetched) > 0 /\ ~populate_metadata(common, fetched).returned
       THEN IF populate_metadata(common, fetched).raised # ""
            THEN /\ mainPhase' = "raised"
                 /\ UNCHANGED <<sourceIndex, updates>>
            ELSE /\ updates' = Append(updates,
                        UpdateCall(common.name, populate_metadata(common, fetched).mds_arr,
                               populate_metadata(common, fetched).keys, Len(fetches) + 1))
                 /\ mainPhase' = NextPhase(mainPhase, sourceIndex + 1)
                 /\ sourceIndex' = NextIndex(mainPhase, sourceIndex + 1)
       ELSE /\ mainPhase' = NextPhase(mainPhase, sourceIndex + 1)
            /\ sourceIndex' = NextIndex(mainPhase, sourceIndex + 1)
            /\ UNCHANGED updates

\* one pass of the loop over gen3_commons: pull_mds raises or returns
Gen3Source ==
    /\ mainPhase = "gen3"
    /\ \/ SourceRaised(gen3_commons[sourceIndex].name)
       \/ \E fetched \in ResultSet : SourceReturned(gen3_commons[sourceIndex], fetched)
    /\ UNCHANGED <<useAggMds, gen3_commons, adapter_commons>>

\* one pass of the loop over adapter_commons: the call of
\* adapters.get_metadata has more positional arguments than the function
\* takes and raises TypeError; with a matching call the adapter run would
\* raise or return
AdapterSource ==
    /\ mainPhase = "adapters"
    /\ IF MainCallArgs > GetMetadataMaxArgs
       THEN SourceRaised(adapter_commons[sourceIndex].name)
       ELSE \/ SourceRaised(adapter_commons[sourceIndex].name)
            \/ \E fetched \in ResultSet :
                  SourceReturned(adapter_commons[sourceIndex], fetched)
    /\ UNCHANGED <<useAggMds, gen3_commons, adapter_commons>>

\* after the loops: populate_info, populate_config, get_status, close
MainFinish ==
    /\ mainPhase = "info"
    /\ mainPhase' = "done"
    /\ UNCHANGED <<useAggMds, gen3_commons, adapter_commons, sourceIndex, fetches, updates>>

\* C17: a source is never partially ingested: every call of
\* datastore.update_metadata for a source comes after the fetch of that
\* source returned at least one record, and a source whose fetch failed has
\* no update_metadata call in the run.
C17_NoPartialIngestion ==
    /\ \A u \in 1..Len(updates) :
          /\ updates[u].after \in 1..Len(fetches)
          /\ fetches[updates[u].after].name = updates[u].name
          /\ fetches[updates[u].after].outcome = "ok"
          /\ fetches[updates[u].after].n >= 1
    /\ \A f \in 1..Len(fetches) :
          fetches[f].outcome = "failed" =>
              \A u \in 1..Len(updates) : updates[u].name # fetches[f].name

\* C22 (as claimed): the guid list passed to datastore.update_metadata
\* indexes the metadata array passed with it: both have the same length and
\* the i-th guid is the key of the i-th entry, also when select_field
\* filtering removed entries.
C22_GuidsIndexMetadata ==
    \A u \in 1..Len(updates) :
        /\ Len(updates[u].keys) = Len(updates[u].mds_arr)
        /\ \A i \in 1..Len(updates[u].mds_arr) :
              updates[u].keys[i] = updates[u].mds_arr[i]

\* the configured commons of a name
CommonOf(name) ==
    CHOOSE c \in {gen3_commons[i] : i \in 1..Len(gen3_commons)}
                 \cup {adapter_commons[i] : i \in 1..Len(adapter_commons)} :
        c.name = name

\* the guids do index the metadata of a source that has no select_field
C22_GuidsIndexUnfiltered ==
    \A u \in 1..Len(updates) :
        ~CommonOf(updates[u].name).select_field =>
            updates[u].keys = updates[u].mds_arr

\* an update whose metadata array lost an entry to the filter and whose guid
\* list did not
C22_GuidsOfRemovedEntries ==
    \E u \in 1..Len(updates) :
        /\ CommonOf(updates[u].name).select_field
        /\ Len(updates[u].mds_arr) < Len(updates[u].keys)

\* one source was ingested and the fetch of a later source failed
C17_Witness ==
    /\ mainPhase = "raised"
    /\ Len(updates) >= 1
    /\ fetches[Len(fetches)].outcome = "failed"

vars == <<runVars, perItemVars, parseVars, pageVars, mapVars, mainVars>>

(***************************************************************************)
(* Claims about the ClinicalTrials fetch against any server.               *)
(***************************************************************************)
\* C18 (as claimed): every ClinicalTrials fetch run terminates, whatever the
\* server answers, provided each request returns.
C18_FetchTerminates == <>(phase \in {"Done", "FetchFailed"})

\* a response that reports studies found and returns none leaves the loop
\* where it was: the same request is due again
C18_NoProgress ==
    /\ phase = "Fetching"
    /\ Len(requests) = MaxLog
    /\ results = <<>>
    /\ offset = 1
    /\ lastResponse = [status |-> 200, body |-> "ok"]

\* C19: every ClinicalTrials request asks for the ranks that start at 1 plus
\* the number of studies returned so far, at least 1 and at most batchSize
\* of them, and after the first request not past NStudiesFound.
C19_WindowsFollowReturned ==
    [][phase = "Fetching" =>
          /\ requests'[Len(requests')].min_rnk = 1 + Len(results)
          /\ requests'[Len(requests')].max_rnk - requests'[Len(requests')].min_rnk + 1
                \in 1..filters.batchSize
          /\ requests # <<>> => requests'[Len(requests')].max_rnk <= NStudiesFound]_vars

\* a run of three requests whose second and third start where the studies
\* returned before them end
C19_Witness ==
    /\ phase = "Done"
    /\ Len(requests) = 3
    /\ requests[2].min_rnk = requests[1].min_rnk + 1
    /\ requests[3].min_rnk = requests[2].min_rnk + 2

Init == RunInit /\ PerItemIdle /\ ParseIdle /\ PageIdle /\ MapIdle /\ MainIdle
Next ==
    \/ GetMetadata /\ UNCHANGED <<perItemVars, parseVars, pageVars, mapVars, mainVars>>
    \/ ICPSRRequest /\ UNCHANGED <<perItemVars, parseVars, pageVars, mapVars, mainVars>>
    \/ PDAPSRequest /\ UNCHANGED <<perItemVars, parseVars, pageVars, mapVars, mainVars>>
    \/ CTRequest /\ UNCHANGED <<perItemVars, parseVars, pageVars, mapVars, mainVars>>
    \/ StartNormalize /\ UNCHANGED <<perItemVars, parseVars, pageVars, mapVars, mainVars>>
    \/ FinishNormalize /\ UNCHANGED <<perItemVars, parseVars, pageVars, mapVars, mainVars>>
Spec == Init /\ [][Next]_vars

InitPerItem == RunIdle /\ PerItemInit /\ ParseIdle /\ PageIdle /\ MapIdle /\ MainIdle
NextPerItem == SetPerItemValuesCall /\ UNCHANGED <<runVars, parseVars, pageVars, mapVars, mainVars>>
SpecPerItem == InitPerItem /\ [][NextPerItem]_vars

InitParse == RunIdle /\ PerItemIdle /\ ParseInit /\ PageIdle /\ MapIdle /\ MainIdle
NextParse ==
    \/ DeleteChar /\ UNCHANGED <<runVars, perItemVars, pageVars, mapVars, mainVars>>
    \/ InsertChar /\ UNCHANGED <<runVars, perItemVars, pageVars, mapVars, mainVars>>
    \/ ReplaceChar /\ UNCHANGED <<runVars, perItemVars, pageVars, mapVars, mainVars>>
    \/ Search /\ UNCHANGED <<runVars, perItemVars, pageVars, mapVars, mainVars>>
SpecParse == InitParse /\ [][NextParse]_vars

InitSearch == RunIdle /\ PerItemIdle /\ SearchInit /\ PageIdle /\ MapIdle /\ MainIdle
NextSearch == Search /\ UNCHANGED <<runVars, perItemVars, pageVars, mapVars, mainVars>>
SpecSearch == InitSearch /\ [][NextSearch]_vars

InitBoolean == RunIdle /\ PerItemIdle /\ BooleanInit /\ PageIdle /\ MapIdle /\ MainIdle
NextBoolean ==
    \/ WrapAnd /\ UNCHANGED <<runVars, perItemVars, pageVars, mapVars, mainVars>>
    \/ WrapOr /\ UNCHANGED <<runVars, perItemVars, pageVars, mapVars, mainVars>>
    \/ Search /\ UNCHANGED <<runVars, perItemVars, pageVars, mapVars, mainVars>>
SpecBoolean == InitBoolean /\ [][NextBoolean]_vars

InitPage == RunIdle /\ PerItemIdle /\ ParseIdle /\ PageInit /\ MapIdle /\ MainIdle
NextPage == SearchPage /\ UNCHANGED <<runVars, perItemVars, parseVars, mapVars, mainVars>>
SpecPage == InitPage /\ [][NextPage]_vars

InitExtract == RunIdle /\ PerItemIdle /\ ParseIdle /\ PageIdle /\ ExtractInit /\ MainIdle
NextExtract ==
    GetJsonPathValueCall /\ UNCHANGED <<runVars, perItemVars, parseVars, pageVars, mainVars>>
SpecExtract == InitExtract /\ [][NextExtract]_vars

InitMapFields == RunIdle /\ PerItemIdle /\ ParseIdle /\ PageIdle /\ MapFieldsInit /\ MainIdle
NextMapFields ==
    MapFieldsCall /\ UNCHANGED <<runVars, perItemVars, parseVars, pageVars, mainVars>>
SpecMapFields == InitMapFields /\ [][NextMapFields]_vars

InitNormalize == RunIdle /\ PerItemIdle /\ ParseIdle /\ PageIdle /\ NormalizeInit /\ MainIdle
NextNormalize ==
    NormalizeCall /\ UNCHANGED <<runVars, perItemVars, parseVars, pageVars, mainVars>>
SpecNormalize == InitNormalize /\ [][NextNormalize]_vars

InitFlatten == RunIdle /\ PerItemIdle /\ ParseIdle /\ PageIdle /\ FlattenInit /\ MainIdle
NextFlatten ==
    FlattenCall /\ UNCHANGED <<runVars, perItemVars, parseVars, pageVars, mainVars>>
SpecFlatten == InitFlatten /\ [][NextFlatten]_vars

InitMain == RunIdle /\ PerItemIdle /\ ParseIdle /\ PageIdle /\ MapIdle /\ MainInit
NextMain ==
    \/ MainStart /\ UNCHANGED <<runVars, perItemVars, parseVars, pageVars, mapVars>>
    \/ Gen3Source /\ UNCHANGED <<runVars, perItemVars, parseVars, pageVars, mapVars>>
    \/ AdapterSource /\ UNCHANGED <<runVars, perItemVars, parseVars, pageVars, mapVars>>
    \/ MainFinish /\ UNCHANGED <<runVars, perItemVars, parseVars, pageVars, mapVars>>
SpecMain == InitMain /\ [][NextMain]_vars

InitFetch == FetchInit /\ PerItemIdle /\ ParseIdle /\ PageIdle /\ MapIdle /\ MainIdle
NextFetch ==
    \/ GetMetadata /\ UNCHANGED <<perItemVars, parseVars, pageVars, mapVars, mainVars>>
    \/ CTRequestAnyServer /\ UNCHANGED <<perItemVars, parseVars, pageVars, mapVars, mainVars>>
SpecFetch == InitFetch /\ [][NextFetch]_vars
\* each request returns, and the loop goes on to its next iteration
SpecFetchLive == SpecFetch /\ WF_vars(NextFetch)

====
